---------------------------- MODULE Spec2Model ----------------------------
(***************************************************************************)
(* Plan validation and aggregation of the dashboard pipeline               *)
(* (backend/pipeline/agents/planner_agent.py, aggregator_agent.py,         *)
(* backend/utils/json_utils.py).                                           *)
(*                                                                         *)
(* JSON values are modelled as records.  A key that a mapping does not     *)
(* hold has the value Absent, a JSON null has the value None, a value of   *)
(* a non-string type where the code calls a string method has the value    *)
(* NonString.  Titles and KPI names are sequences of words.                *)
(***************************************************************************)
EXTENDS Integers, Sequences, FiniteSets, TLC

Absent    == "<absent>"
None      == "<None>"
NonString == "<non-string>"

\* Python truthiness of a value read with dict.get (None when the key is absent).
Truthy(v) == v \notin {Absent, None, ""}

\* dict.get(key) and dict.get(key, default)
Get(v) == IF v = Absent THEN None ELSE v
GetOr(v, default) == IF v = Absent THEN default ELSE v

Range(s) == {s[i] : i \in 1..Len(s)}

(***************************************************************************)
(* Bounds of the model                                                     *)
(***************************************************************************)
\* Largest number of entries (charts plus KPIs) of a raw plan.
MaxRawItems == 3

\* Largest number of rows of a dataset given cell by cell.
MaxRows == 2

\* Largest number of numeric values of a histogram column.
MaxValues == 410

\* Largest number of rows of a category that share one value.
MaxCopies == 30

\* Largest span in days of a datetime column.
MaxSpanDays == 740

(***************************************************************************)
(* planner_agent.py: constants                                             *)
(***************************************************************************)
VALID_CHART_TYPES ==
    {"bar", "line", "pie", "scatter", "area", "boxplot", "histogram",
     "radar", "heatmap", "gauge", "funnel", "treemap"}

TYPE_FALLBACK ==
    [t \in {"violin", "waterfall", "donut", "doughnut", "stacked_bar",
            "stacked_area", "grouped_bar", "column", "bubble", "sankey",
            "sunburst"} |->
        CASE t = "violin"       -> "boxplot"
          [] t = "waterfall"    -> "bar"
          [] t = "donut"        -> "pie"
          [] t = "doughnut"     -> "pie"
          [] t = "stacked_bar"  -> "bar"
          [] t = "stacked_area" -> "area"
          [] t = "grouped_bar"  -> "bar"
          [] t = "column"       -> "bar"
          [] t = "bubble"       -> "scatter"
          [] t = "sankey"       -> "funnel"
          [] t = "sunburst"     -> "treemap"]

PATTERN_CATEGORICAL_DIST   == "categorical_distribution"
PATTERN_NUMERIC_VS_CAT     == "numeric_vs_categorical"
PATTERN_NUMERIC_VS_NUMERIC == "numeric_vs_numeric"
PATTERN_DISTRIBUTION       == "distribution"
PATTERN_GROUPED            == "grouped_hue"

AllPatterns ==
    {PATTERN_CATEGORICAL_DIST, PATTERN_NUMERIC_VS_CAT, PATTERN_NUMERIC_VS_NUMERIC,
     PATTERN_DISTRIBUTION, PATTERN_GROUPED}

BarLineArea == {"bar", "line", "area"}

\* _enforce_y_rotation: a column is overused when more than this many charts use it
RotationLimit == 2
\* planner_agent: fewer KPIs / charts than these trigger the minimum steps
MinKpis == 2
MinCharts == 5
\* _ensure_min_kpis / _ensure_min_charts stop adding at these sizes
KpiCap == 3
ChartCap == 7
\* bins of the synthesized histograms
SynthBins == 12

(***************************************************************************)
(* String conversions, by table over the words the model uses              *)
(***************************************************************************)
\* str.lower().strip() of a raw chart type
LowerStrip(t) ==
    CASE t = " Bar "  -> "bar"
      [] t = "Violin" -> "violin"
      [] t = "Donut"  -> "donut"
      [] t = "PIE "   -> "pie"
      [] OTHER        -> t

\* str.lower() of a title word
Lower(w) ==
    CASE w = "Violin"  -> "violin"
      [] w = "Boxplot" -> "boxplot"
      [] w = "Bubble"  -> "bubble"
      [] OTHER         -> w

\* _pretty: underscores to blanks, title case; "" for a falsy name
pretty(col) ==
    CASE ~Truthy(col)          -> ""
      [] col = "Tenure_group"  -> "Tenure Group"
      [] col = "OrderDate"     -> "Orderdate"
      [] col = "YearEnd"       -> "Yearend"
      [] col = "OrderId"       -> "Orderid"
      [] OTHER                 -> col

(***************************************************************************)
(* Data model                                                              *)
(***************************************************************************)
\* y spec of a chart: a mapping {column, aggregation}, or a value that is
\* no mapping (form "scalar"), or no y key at all (form "absent")
YSpec(column, aggregation) ==
    [form |-> "mapping", column |-> column, aggregation |-> aggregation]
YScalar == [form |-> "scalar", column |-> Absent, aggregation |-> Absent]
YAbsent == [form |-> "absent", column |-> Absent, aggregation |-> Absent]

\* one entry of plan["charts"]; bins = 0 stands for "no bins key"
Chart(id, type, x, y, hue, title, bins) ==
    [form |-> "mapping", id |-> id, type |-> type, x |-> x, y |-> y,
     hue |-> hue, title |-> title, bins |-> bins]

\* an entry of plan["charts"] that is not a mapping (a JSON string)
ScalarChart ==
    [form |-> "scalar", id |-> Absent, type |-> Absent, x |-> Absent,
     y |-> YAbsent, hue |-> Absent, title |-> <<>>, bins |-> 0]

\* one entry of plan["kpis"]
Kpi(name, column, aggregation) ==
    [form |-> "mapping", name |-> name,
     metric |-> [form |-> "mapping", column |-> column, aggregation |-> aggregation]]
\* a KPI whose metric is not a mapping (a JSON string)
KpiScalarMetric(name) ==
    [form |-> "mapping", name |-> name,
     metric |-> [form |-> "scalar", column |-> Absent, aggregation |-> Absent]]
\* the name of a KPI that has no name key
NoName == <<Absent>>
\* an entry of plan["kpis"] that is not a mapping (a JSON string)
ScalarKpi ==
    [form |-> "scalar", name |-> NoName,
     metric |-> [form |-> "absent", column |-> Absent, aggregation |-> Absent]]

\* c.get("y", {}).get("column", "") if isinstance(c.get("y"), dict) else ""
y_col_of(c) ==
    IF c.y.form = "mapping" THEN GetOr(c.y.column, "") ELSE ""

\* y_spec.get("aggregation", "mean") if isinstance(y_spec, dict) else "mean"
\* (c.get("y", {}) is the empty mapping when the key is absent)
agg_of(c) ==
    IF c.y.form = "mapping" THEN GetOr(c.y.aggregation, "mean") ELSE "mean"

\* the title as the code reads it: c.get("title", "")
title_of(c) == c.title

EmptyPlan == [kpis |-> <<>>, charts |-> <<>>]

(***************************************************************************)
(* json_utils.py: safe_json_loads                                          *)
(***************************************************************************)
\* A response text: an optional markdown fence around a body.  The body is
\* nothing, text that is no JSON, or the JSON text of a list, a scalar, null
\* or an object (an object possibly with a comma before its closing brace).
Fences == {"none", "fence_json", "fence_bare"}
Bodies == {"empty", "garbage", "list", "scalar", "null", "object", "object_trailing_comma"}

\* text.strip(), the fence removed, the trailing commas removed
cleaned_body(text) ==
    IF text.body = "object_trailing_comma" THEN "object" ELSE text.body

\* [raises, value]: value.kind is the JSON type that json.loads returns
safe_json_loads(text) ==
    IF text.fence = "none" /\ text.body = "empty"
    THEN [raises |-> TRUE, error |-> "Empty LLM response", kind |-> "none", plan |-> EmptyPlan]
    ELSE IF cleaned_body(text) \in {"empty", "garbage"}
    THEN [raises |-> TRUE, error |-> "Invalid JSON from LLM", kind |-> "none", plan |-> EmptyPlan]
    ELSE [raises |-> FALSE, error |-> "", kind |-> cleaned_body(text),
          plan |-> IF cleaned_body(text) = "object" THEN text.plan ELSE EmptyPlan]

\* a guard that lets a JSON list through to the pipeline
setdefault_raises_lists_pass(parsed) == parsed.kind \notin {"object", "list"}

\* plan.setdefault("kpis", []) exists only on a mapping
setdefault_raises(parsed) == parsed.kind # "object"

(***************************************************************************)
(* planner_agent.py: validation helpers                                    *)
(***************************************************************************)
\* c.get("type", "bar").lower().strip() needs a mapping holding a string
fix_chart_types_raises(charts) ==
    \E i \in 1..Len(charts) :
        \/ charts[i].form # "mapping"
        \/ charts[i].type \in {NonString, None}

\* a type with no entry in TYPE_FALLBACK left as it is
fix_chart_types_keeping_unmapped(charts) ==
    [i \in 1..Len(charts) |->
        LET ctype == LowerStrip(GetOr(charts[i].type, "bar"))
        IN  [charts[i] EXCEPT !.type =
                IF ctype \in DOMAIN TYPE_FALLBACK THEN TYPE_FALLBACK[ctype] ELSE ctype]]

fix_chart_types(charts) ==
    [i \in 1..Len(charts) |->
        LET ctype == LowerStrip(GetOr(charts[i].type, "bar"))
        IN  IF ctype \notin VALID_CHART_TYPES
            THEN [charts[i] EXCEPT !.type =
                    IF ctype \in DOMAIN TYPE_FALLBACK THEN TYPE_FALLBACK[ctype] ELSE "bar"]
            ELSE [charts[i] EXCEPT !.type = ctype]]

wrong_words == {"boxplot", "box plot", "violin", "waterfall", "sankey", "sunburst", "bubble"}

\* " and <hue>" when the chart has a truthy hue
hue_suffix(hue) == IF Truthy(hue) THEN <<"and", pretty(hue)>> ELSE <<>>

has_wrong_word(title) == \E i \in 1..Len(title) : Lower(title[i]) \in wrong_words

fix_chart_titles(charts) ==
    [i \in 1..Len(charts) |->
        LET c == charts[i]
        IN  IF has_wrong_word(title_of(c))
            THEN [c EXCEPT !.title =
                    <<pretty(y_col_of(c)), "by", pretty(GetOr(c.x, ""))>> \o hue_suffix(Get(c.hue))]
            ELSE c]

\* key_numeric[0] if key_numeric else (all_numeric[0] if all_numeric else None);
\* all_numeric = list(numeric_cols) lists a set, whose first element is set_first
fallback_y_of(schema, set_first) ==
    IF Len(schema.key_numeric_columns) > 0 THEN schema.key_numeric_columns[1]
    ELSE IF Len(schema.numeric) > 0 THEN set_first
    ELSE None

\* the body of the loop of _fix_y_axis for one chart: [keep, chart]
fix_y_axis_one(c, schema, fallback_y) ==
    LET ctype   == GetOr(c.type, "bar")
        y_col   == y_col_of(c)
        x_col   == GetOr(c.x, "")
        is_date == y_col \in Range(schema.datetime) /\ ctype # "pie"
        c1      == IF is_date /\ Truthy(fallback_y)
                   THEN [c EXCEPT !.y = YSpec(fallback_y, "mean"),
                                  !.title = <<"Average", pretty(fallback_y), "by", pretty(x_col)>>
                                            \o hue_suffix(Get(c.hue))]
                   ELSE c
        swapped == /\ ctype \in BarLineArea
                   /\ x_col \in Range(schema.numeric)
                   /\ y_col \in Range(schema.categorical)
        c2      == IF swapped
                   THEN [c1 EXCEPT !.x = y_col, !.y.column = x_col]
                   ELSE c1
    IN  [keep |-> ~(is_date /\ ~Truthy(fallback_y)), chart |-> c2]

\* the charts of a sequence of [keep, chart] for which keep holds, in order
Kept(marked) ==
    LET k == SelectSeq(marked, LAMBDA r : r.keep)
    IN  [i \in 1..Len(k) |-> k[i].chart]

fix_y_axis(charts, schema, fallback_y) ==
    Kept([i \in 1..Len(charts) |-> fix_y_axis_one(charts[i], schema, fallback_y)])

strip_identifier_charts(charts, identifiers) ==
    Kept([i \in 1..Len(charts) |->
            LET c == charts[i]
            IN  [keep  |-> ~(GetOr(c.x, "") \in identifiers \/ y_col_of(c) \in identifiers),
                 chart |-> IF GetOr(c.hue, "") \in identifiers
                           THEN [c EXCEPT !.hue = None] ELSE c]])

\* k.get("metric", {}).get("column", "") needs mappings
kpi_column_raises(kpis) ==
    \E i \in 1..Len(kpis) : kpis[i].form # "mapping" \/ kpis[i].metric.form = "scalar"

kpi_column(k) == IF k.metric.form = "mapping" THEN GetOr(k.metric.column, "") ELSE ""

strip_identifier_kpis(kpis, identifiers) ==
    SelectSeq(kpis, LAMBDA k : kpi_column(k) \notin identifiers)

strip_date_kpis(kpis, datetime_cols) ==
    SelectSeq(kpis, LAMBDA k : kpi_column(k) \notin datetime_cols)

(***************************************************************************)
(* planner_agent.py: diversity enforcement                                 *)
(***************************************************************************)
classify_chart_pattern(chart) ==
    LET ctype == GetOr(chart.type, "bar")
        agg   == agg_of(chart)
        hue   == Get(chart.hue)
    IN  (IF ctype \in {"pie", "funnel"} /\ agg = "count" THEN {PATTERN_CATEGORICAL_DIST} ELSE {})
        \cup (IF ctype = "scatter" THEN {PATTERN_NUMERIC_VS_NUMERIC} ELSE {})
        \cup (IF ctype = "histogram" THEN {PATTERN_DISTRIBUTION} ELSE {})
        \cup (IF ctype = "boxplot" THEN {PATTERN_DISTRIBUTION, PATTERN_NUMERIC_VS_CAT} ELSE {})
        \cup (IF ctype \in BarLineArea /\ agg # "count" THEN {PATTERN_NUMERIC_VS_CAT} ELSE {})
        \cup (IF ctype \in BarLineArea /\ agg = "count" /\ ~Truthy(hue)
              THEN {PATTERN_CATEGORICAL_DIST} ELSE {})
        \cup (IF Truthy(hue) THEN {PATTERN_GROUPED} ELSE {})

patterns_of(charts) == UNION {classify_chart_pattern(charts[i]) : i \in 1..Len(charts)}

\* [c for c in schema.get("key_numeric_columns", ...) if c not in identifiers and c not in datetime_cols]
usable_key_numeric(schema) ==
    SelectSeq(schema.key_numeric_columns,
              LAMBDA c : c \notin schema.identifiers /\ c \notin Range(schema.datetime))

\* [c for c in schema.get("key_categorical_columns", ...) if c not in identifiers]
usable_categorical(schema) ==
    SelectSeq(schema.key_categorical_columns, LAMBDA c : c \notin schema.identifiers)

\* {c.get("id") for c in charts}
ids_of(charts) == {Get(charts[i].id) : i \in 1..Len(charts)}

\* Counter(used_y_cols).get(n, 0)
count_y(charts, n) == Cardinality({i \in 1..Len(charts) : y_col_of(charts[i]) = n})

\* pick_fresh_numeric(): the first column of numeric with the least count
\* (list.sort is stable); used_y_cols lists the charts given to the step
pick_fresh_numeric(numeric, charts) ==
    LET best == CHOOSE i \in 1..Len(numeric) :
                    /\ \A j \in 1..Len(numeric) :
                          count_y(charts, numeric[i]) <= count_y(charts, numeric[j])
                    /\ \A j \in 1..(i - 1) :
                          count_y(charts, numeric[j]) > count_y(charts, numeric[i])
    IN  numeric[best]

\* next((c for c in categorical if c != hue_col), categorical[0])
first_other(categorical, hue_col) ==
    LET others == SelectSeq(categorical, LAMBDA c : c # hue_col)
    IN  IF Len(others) > 0 THEN others[1] ELSE categorical[1]

\* a pie chart that sums its column
pie_chart_summing(id, cat) ==
    Chart(id, "pie", cat, YSpec(cat, "sum"), None, <<"Distribution", "of", pretty(cat)>>, 0)

pie_chart(id, cat) ==
    Chart(id, "pie", cat, YSpec(cat, "count"), None, <<"Distribution", "of", pretty(cat)>>, 0)

enforce_diversity(charts, schema) ==
    LET numeric      == usable_key_numeric(schema)
        categorical  == usable_categorical(schema)
        hue_cols     == schema.suggested_hue_columns
        all_patterns == patterns_of(charts)
        existing_ids == ids_of(charts)
        inj_pie ==
            IF PATTERN_CATEGORICAL_DIST \notin all_patterns /\ "auto_pie_dist" \notin existing_ids
            THEN <<pie_chart("auto_pie_dist", categorical[1])>> ELSE <<>>
        has_second_pie ==
            \E c \in Range(charts \o inj_pie) :
                Get(c.type) \in {"pie", "funnel"} /\ Get(c.x) # categorical[1]
        inj_pie2 ==
            IF Len(categorical) >= 2 /\ ~has_second_pie /\ "auto_pie_dist_2" \notin existing_ids
            THEN <<pie_chart("auto_pie_dist_2", categorical[2])>> ELSE <<>>
        inj_scatter ==
            IF /\ PATTERN_NUMERIC_VS_NUMERIC \notin all_patterns
               /\ Len(numeric) >= 2
               /\ "auto_scatter" \notin existing_ids
            THEN <<Chart("auto_scatter", "scatter", numeric[1], YSpec(numeric[2], "raw"), None,
                         <<pretty(numeric[1]), "vs", pretty(numeric[2]), "Correlation">>, 0)>>
            ELSE <<>>
        inj_hist ==
            IF PATTERN_DISTRIBUTION \notin all_patterns /\ "auto_histogram" \notin existing_ids
            THEN LET dist_col == pick_fresh_numeric(numeric, charts)
                 IN  <<Chart("auto_histogram", "histogram", dist_col, YSpec(dist_col, "raw"), None,
                             <<"Distribution", "of", pretty(dist_col)>>, SynthBins)>>
            ELSE <<>>
        inj_grouped ==
            IF /\ PATTERN_GROUPED \notin all_patterns
               /\ Len(hue_cols) > 0
               /\ "auto_grouped_bar" \notin existing_ids
            THEN LET hue_col == hue_cols[1]
                     x_col   == first_other(categorical, hue_col)
                     y_col   == pick_fresh_numeric(numeric, charts)
                 IN  <<Chart("auto_grouped_bar", "bar", x_col, YSpec(y_col, "mean"), hue_col,
                             <<"Average", pretty(y_col), "by", pretty(x_col), "and", pretty(hue_col)>>,
                             0)>>
            ELSE <<>>
    IN  IF Len(numeric) = 0 \/ Len(categorical) = 0
        THEN charts
        ELSE charts \o inj_pie \o inj_pie2 \o inj_scatter \o inj_hist \o inj_grouped

(***************************************************************************)
(* planner_agent.py: y-column rotation                                     *)
(***************************************************************************)
\* The loop of _enforce_y_rotation from chart i on; counts is the Counter as
\* it stands, fix_idx the number of charts reassigned so far.
RECURSIVE rotate_from(_, _, _, _, _, _)
rotate_from(charts, i, counts, fix_idx, overused, underused) ==
    IF i > Len(charts) THEN <<>>
    ELSE
        LET c     == charts[i]
            y_col == y_col_of(c)
            fix   == /\ y_col \in overused
                     /\ counts[y_col] > RotationLimit
                     /\ fix_idx < Len(underused)
                     /\ GetOr(c.type, "bar") \in BarLineArea
            new_y == underused[fix_idx + 1]
            c2    == [c EXCEPT !.y = YSpec(new_y, agg_of(c)),
                               !.title = <<"Average", pretty(new_y), "by", pretty(GetOr(c.x, ""))>>
                                         \o hue_suffix(Get(c.hue))]
        IN  IF fix
            THEN <<c2>> \o rotate_from(charts, i + 1,
                                       [counts EXCEPT ![y_col] = @ - 1, ![new_y] = @ + 1],
                                       fix_idx + 1, overused, underused)
            ELSE <<c>> \o rotate_from(charts, i + 1, counts, fix_idx, overused, underused)

\* the rotation drawing on every usable numeric column, whatever its use
enforce_y_rotation_any_column(charts, schema) ==
    LET numeric   == usable_key_numeric(schema)
        cols      == {y_col_of(charts[i]) : i \in 1..Len(charts)} \cup Range(numeric)
        counts    == [n \in cols |-> count_y(charts, n)]
        overused  == {col \in cols : counts[col] > RotationLimit /\ col \in Range(numeric)}
    IN  IF Len(numeric) < 2 THEN charts
        ELSE IF overused = {} THEN charts
        ELSE rotate_from(charts, 1, counts, 0, overused, numeric)

enforce_y_rotation(charts, schema) ==
    LET numeric   == usable_key_numeric(schema)
        cols      == {y_col_of(charts[i]) : i \in 1..Len(charts)} \cup Range(numeric)
        counts    == [n \in cols |-> count_y(charts, n)]
        overused  == {col \in cols : counts[col] > RotationLimit /\ col \in Range(numeric)}
        underused == SelectSeq(numeric, LAMBDA n : counts[n] < RotationLimit)
    IN  IF Len(numeric) < 2 THEN charts
        ELSE IF overused = {} THEN charts
        ELSE IF Len(underused) = 0 THEN charts
        ELSE rotate_from(charts, 1, counts, 0, overused, underused)

(***************************************************************************)
(* planner_agent.py: minimum KPIs and charts                               *)
(***************************************************************************)
\* key numeric columns that are neither identifier nor date, else the
\* schema's numeric columns filtered the same way
\* the fallback to the schema's numeric columns taken without the filter
min_numeric_unfiltered(schema) ==
    IF Len(usable_key_numeric(schema)) > 0 THEN usable_key_numeric(schema)
    ELSE schema.numeric

min_numeric(schema) ==
    IF Len(usable_key_numeric(schema)) > 0 THEN usable_key_numeric(schema)
    ELSE SelectSeq(schema.numeric,
                   LAMBDA c : c \notin schema.identifiers /\ c \notin Range(schema.datetime))

agg_types ==
    << <<"Average", "mean">>, <<"Total", "sum">>, <<"Maximum", "max">>, <<"Count", "count">> >>

\* first loop of _ensure_min_kpis: one KPI per column not used yet
RECURSIVE spread_kpis(_, _, _)
spread_kpis(kpis, numeric, i) ==
    IF i > Len(numeric) \/ Len(kpis) >= KpiCap THEN kpis
    ELSE IF numeric[i] \in {Get(kpis[j].metric.column) : j \in 1..Len(kpis)}
    THEN spread_kpis(kpis, numeric, i + 1)
    ELSE LET a == agg_types[(Len(kpis) % Len(agg_types)) + 1]
         IN  spread_kpis(Append(kpis, Kpi(<<a[1], pretty(numeric[i])>>, numeric[i], a[2])),
                         numeric, i + 1)

\* second loop: pair p counts the (column, aggregation) pairs column by column
RECURSIVE fill_kpis(_, _, _)
fill_kpis(kpis, numeric, p) ==
    IF p >= Len(numeric) * Len(agg_types) THEN kpis
    ELSE LET col  == numeric[(p \div Len(agg_types)) + 1]
             a    == agg_types[(p % Len(agg_types)) + 1]
             name == <<a[1], pretty(col)>>
         IN  IF Len(kpis) < KpiCap /\ ~(\E j \in 1..Len(kpis) : kpis[j].name = name)
             THEN fill_kpis(Append(kpis, Kpi(name, col, a[2])), numeric, p + 1)
             ELSE fill_kpis(kpis, numeric, p + 1)

ensure_min_kpis(existing_kpis, schema) ==
    LET numeric == min_numeric(schema)
    IN  fill_kpis(spread_kpis(existing_kpis, numeric, 1), numeric, 0)

\* the loop that appends templates: stop at ChartCap, skip ids present before
RECURSIVE append_templates(_, _, _, _)
append_templates(charts, templates, i, existing_ids) ==
    IF i > Len(templates) \/ Len(charts) >= ChartCap THEN charts
    ELSE IF templates[i].id \in existing_ids
    THEN append_templates(charts, templates, i + 1, existing_ids)
    ELSE append_templates(Append(charts, templates[i]), templates, i + 1, existing_ids)

ensure_min_charts(existing_charts, schema) ==
    LET categorical    == usable_categorical(schema)
        numeric        == min_numeric(schema)
        hue_cols       == schema.suggested_hue_columns
        existing_ids   == ids_of(existing_charts)
        existing_types == {Get(existing_charts[i].type) : i \in 1..Len(existing_charts)}
        next_numeric(idx)     == numeric[(idx % Len(numeric)) + 1]
        next_categorical(idx) == categorical[(idx % Len(categorical)) + 1]
        \* 1. pie
        do_pie == "pie" \notin existing_types
        t_pie  == IF do_pie THEN <<pie_chart("ensure_pie", next_categorical(0))>> ELSE <<>>
        ci1    == IF do_pie THEN 1 ELSE 0
        \* 2. scatter
        do_sc  == "scatter" \notin existing_types /\ Len(numeric) >= 2
        t_sc   == IF do_sc
                  THEN <<Chart("ensure_scatter", "scatter", next_numeric(0),
                               YSpec(next_numeric(1), "raw"), None,
                               <<pretty(next_numeric(0)), "vs", pretty(next_numeric(1))>>, 0)>>
                  ELSE <<>>
        ni2    == IF do_sc THEN 2 ELSE 0
        \* 3. histogram
        do_hi  == "histogram" \notin existing_types
        t_hi   == IF do_hi
                  THEN <<Chart("ensure_histogram", "histogram", next_numeric(ni2),
                               YSpec(next_numeric(ni2), "raw"), None,
                               <<"Distribution", "of", pretty(next_numeric(ni2))>>, SynthBins)>>
                  ELSE <<>>
        ni3    == IF do_hi THEN ni2 + 1 ELSE ni2
        \* 4. bar with hue
        do_gr  == Len(hue_cols) > 0
        t_gr   == IF do_gr
                  THEN LET hue   == hue_cols[1]
                           x_col == first_other(categorical, hue)
                           y_col == next_numeric(ni3)
                       IN  <<Chart("ensure_grouped_bar", "bar", x_col, YSpec(y_col, "mean"), hue,
                                   <<"Average", pretty(y_col), "by", pretty(x_col), "and", pretty(hue)>>,
                                   0)>>
                  ELSE <<>>
        ni4    == IF do_gr THEN ni3 + 1 ELSE ni3
        \* 5. boxplot
        do_bx  == "boxplot" \notin existing_types
        t_bx   == IF do_bx
                  THEN <<Chart("ensure_boxplot", "boxplot", next_categorical(ci1),
                               YSpec(next_numeric(ni4), "raw"), None,
                               <<pretty(next_numeric(ni4)), "Distribution", "by",
                                 pretty(next_categorical(ci1))>>, 0)>>
                  ELSE <<>>
        ni5    == IF do_bx THEN ni4 + 1 ELSE ni4
        ci5    == IF do_bx THEN ci1 + 1 ELSE ci1
        \* 6. bar, 7. line
        t_bar  == <<Chart("ensure_bar", "bar", next_categorical(ci5),
                          YSpec(next_numeric(ni5), "mean"), None,
                          <<"Average", pretty(next_numeric(ni5)), "by",
                            pretty(next_categorical(ci5))>>, 0)>>
        t_line == <<Chart("ensure_line", "line", next_categorical(ci5 + 1),
                          YSpec(next_numeric(ni5 + 1), "mean"), None,
                          <<pretty(next_numeric(ni5 + 1)), "Trend", "by",
                            pretty(next_categorical(ci5 + 1))>>, 0)>>
        templates == t_pie \o t_sc \o t_hi \o t_gr \o t_bx \o t_bar \o t_line
    IN  IF Len(categorical) = 0 \/ Len(numeric) = 0
        THEN existing_charts
        ELSE append_templates(existing_charts, templates, 1, existing_ids)

(***************************************************************************)
(* aggregator_agent.py                                                     *)
(***************************************************************************)
AGG_MAP_KEYS == {"sum", "mean", "avg", "count", "min", "max", "median", "raw"}

\* the lookups at the head of the try block: chart["x"], chart["y"],
\* y_spec["column"], y_spec["aggregation"]
chart_lookup_raises(chart) ==
    \/ chart.x = Absent
    \/ chart.y.form # "mapping"
    \/ chart.y.column = Absent
    \/ chart.y.aggregation = Absent

\* [c for c in required_cols if c not in df.columns]
missing_columns(chart, columns) ==
    {c \in {chart.x, chart.y.column} \cup (IF Truthy(Get(chart.hue)) THEN {chart.hue} ELSE {}) :
        c \notin columns}

Error(reason) == [shape |-> "error", error |-> reason]
Result(shape) == [shape |-> shape, error |-> ""]

\* the value stored under the chart's id: the branches in the order of the code
aggregate_chart(chart, df) ==
    LET ctype == GetOr(chart.type, "bar")
        agg   == chart.y.aggregation
        hue   == Get(chart.hue)
        no_numeric == chart.y.column \notin df.numeric_data
    IN  IF chart_lookup_raises(chart) THEN Error("exception")
        ELSE IF missing_columns(chart, df.columns) # {} THEN Error("Missing columns")
        ELSE IF ctype = "scatter" \/ agg = "raw" THEN Result("scatter_table")
        ELSE IF ctype = "boxplot" THEN Result("boxplot")
        ELSE IF ctype = "histogram"
             THEN IF no_numeric THEN Error("No numeric data for histogram")
                  ELSE Result("histogram")
        ELSE IF ctype = "radar" THEN Result("radar")
        ELSE IF ctype = "gauge"
             THEN IF no_numeric THEN Error("No numeric data for gauge")
                  ELSE Result("gauge")
        ELSE IF ctype = "heatmap"
             THEN IF Truthy(hue) THEN Result("heatmap")
                  ELSE Error("Heatmap requires hue column")
        ELSE IF agg # "count" /\ agg \notin AGG_MAP_KEYS /\ ~no_numeric THEN Error("exception")
        ELSE Result("table")

\* the chart loop from chart i on: cid = chart["id"] is read outside the try
\* block; [raised, aggregated]
RECURSIVE aggregate_charts(_, _, _, _)
aggregate_charts(charts, i, df, aggregated) ==
    IF i > Len(charts) THEN [raised |-> FALSE, aggregated |-> aggregated]
    ELSE IF charts[i].form # "mapping" \/ charts[i].id = Absent
    THEN [raised |-> TRUE, aggregated |-> aggregated]
    ELSE LET cid == charts[i].id
             r   == aggregate_chart(charts[i], df)
         IN  aggregate_charts(charts, i + 1, df,
                 [k \in DOMAIN aggregated \cup {cid} |->
                     IF k = cid THEN r ELSE aggregated[k]])

\* one entry of state["kpis"] for one KPI request
aggregate_kpi(kpi, df) ==
    LET \* kpi.get("name", "KPI") of the except branch
        failed == [name  |-> IF kpi.name = NoName THEN <<"KPI">> ELSE kpi.name,
                   value |-> "null", error |-> TRUE]
    IN  IF kpi.metric.form # "mapping"
           \/ kpi.metric.column = Absent \/ kpi.metric.aggregation = Absent
        THEN failed
        ELSE IF kpi.metric.column \notin df.columns
        THEN failed
        ELSE IF kpi.metric.aggregation \notin AGG_MAP_KEYS
                /\ kpi.metric.column \in df.numeric_data
        THEN failed
        \* kpi["name"] raises when the value is ready
        ELSE IF kpi.name = NoName THEN failed
        ELSE IF kpi.metric.aggregation = "count"
        THEN [name |-> kpi.name, value |-> "number", error |-> FALSE]
        ELSE [name |-> kpi.name,
              value |-> IF kpi.metric.aggregation \in AGG_MAP_KEYS
                           /\ (kpi.metric.column \in df.numeric_data
                                \/ kpi.metric.aggregation = "raw")
                        THEN "number" ELSE "null",
              error |-> FALSE]

\* the except branch of the KPI loop calls kpi.get: it raises in its turn
\* when the entry is no mapping
kpi_loop_raises(kpis) == \E i \in 1..Len(kpis) : kpis[i].form # "mapping"

\* a KPI loop that leaves out the requests that failed
aggregate_kpis_dropping_failures(kpis, df) ==
    SelectSeq([i \in 1..Len(kpis) |-> aggregate_kpi(kpis[i], df)], LAMBDA e : ~e.error)

aggregate_kpis(kpis, df) == [i \in 1..Len(kpis) |-> aggregate_kpi(kpis[i], df)]

(***************************************************************************)
(* aggregator_agent.py: the values of one entry                            *)
(***************************************************************************)
\* A cell of the dataframe, by what the aggregator can tell about it: a finite
\* number, a missing value (NaN), an infinity, or a text that is no number.
\* A float that came out of a computation has one of the first four kinds.
Cells == {"number", "nan", "inf", "-inf", "text"}

NonFinite == {"nan", "inf", "-inf"}

\* safe_value(v): None for None, NaN and the infinities
safe_value(v) == IF v = "null" \/ v \in NonFinite THEN "null" ELSE v

\* pd.to_numeric(series, errors="coerce")
to_numeric(series) == [i \in 1..Len(series) |-> IF series[i] = "text" THEN "nan" ELSE series[i]]

\* series.dropna()
dropna(series) == SelectSeq(series, LAMBDA c : c # "nan")

\* the k-th smallest value of a series that holds no NaN
kth(series, k) ==
    LET Count(c) == Cardinality({i \in 1..Len(series) : series[i] = c})
    IN  IF k <= Count("-inf") THEN "-inf"
        ELSE IF k <= Count("-inf") + Count("number") THEN "number"
        ELSE "inf"

\* a + b in floating point
plus(a, b) ==
    IF "nan" \in {a, b} \/ {a, b} = {"inf", "-inf"} THEN "nan"
    ELSE IF "inf" \in {a, b} THEN "inf"
    ELSE IF "-inf" \in {a, b} THEN "-inf"
    ELSE "number"

\* getattr(series, fn)() on a non-empty series that holds no NaN
reduce(series, fn) ==
    LET n == Len(series)
        has(c) == \E i \in 1..n : series[i] = c
    IN  CASE fn \in {"sum", "mean"} ->
               IF has("inf") /\ has("-inf") THEN "nan"
               ELSE IF has("inf") THEN "inf"
               ELSE IF has("-inf") THEN "-inf"
               ELSE "number"
          [] fn = "min" -> kth(series, 1)
          [] fn = "max" -> kth(series, n)
          [] fn = "median" ->
               IF n % 2 = 1 THEN kth(series, (n + 1) \div 2)
               ELSE plus(kth(series, n \div 2), kth(series, n \div 2 + 1))
          [] fn = "count" -> "number"

\* AGG_MAP.get(agg, default)
agg_fn(agg, default) ==
    CASE agg = "avg" -> "mean"
      [] agg = "raw" -> None
      [] agg \in AGG_MAP_KEYS \ {"avg", "raw"} -> agg
      [] OTHER -> default

\* apply_metric(series, agg): a list for "raw", None for a series with no
\* number, else the reduction; an unknown aggregation raises AttributeError
apply_metric(series, agg) ==
    LET fn == agg_fn(agg, agg)
        s  == dropna(to_numeric(series))
        \* the aggregations pandas has a Series method for, among the model's
        SeriesMethods == {"sum", "mean", "count", "min", "max", "median"}
    IN  IF fn = None THEN [raised |-> FALSE, value |-> "list"]
        ELSE IF s = <<>> THEN [raised |-> FALSE, value |-> "null"]
        ELSE IF fn \notin SeriesMethods THEN [raised |-> TRUE, value |-> "null"]
        ELSE [raised |-> FALSE, value |-> reduce(s, fn)]

\* the value of one KPI entry over the cells of its column (lines 53 to 64)
kpi_value(series, agg) ==
    IF agg = "count" THEN [raised |-> FALSE, value |-> "number"]
    ELSE LET r == apply_metric(series, agg)
         IN  IF r.raised THEN r
             ELSE IF r.value = "list" THEN [raised |-> FALSE, value |-> "number"]
             ELSE [raised |-> FALSE, value |-> safe_value(r.value)]

\* An entry of aggregated_data with the numbers it holds
Stored(shape, numbers) == [shape |-> shape, error |-> "", numbers |-> numbers]
Failed(reason) == [shape |-> "error", error |-> reason, numbers |-> {}]

\* the scatter/raw table: the rows whose x and value are both numbers after
\* the coercion, as the set of their cells
scatter_table(rows) ==
    LET kept == SelectSeq(rows, LAMBDA r :
                    /\ r.x # "nan" /\ r.y # "nan"
                    /\ r.x # "text" /\ r.y # "text")
    IN  Stored("scatter_table",
               {kept[i].x : i \in 1..Len(kept)} \cup {kept[i].y : i \in 1..Len(kept)})

\* the categories of x: one category per kind of cell
Categories(rows, keep_nan) ==
    {rows[i].x : i \in 1..Len(rows)} \ (IF keep_nan THEN {} ELSE {"nan"})

\* the y cells of the rows of one category
Subset(rows, cat) ==
    LET sel == SelectSeq(rows, LAMBDA r : r.x = cat)
    IN  [i \in 1..Len(sel) |-> sel[i].y]

\* the y cells of all rows
Column(rows) == [i \in 1..Len(rows) |-> rows[i].y]

\* groupby(..., dropna=False) with apply_metric, safe_value and dropna: the
\* table of the standard charts, of the treemap and of the funnel
grouped_table(rows, agg) ==
    LET cats == Categories(rows, TRUE)
        value(cat) == IF agg = "count" THEN [raised |-> FALSE, value |-> "number"]
                      ELSE apply_metric(Subset(rows, cat), agg)
    IN  IF \E cat \in cats : value(cat).raised THEN Failed("exception")
        ELSE Stored("table", {safe_value(value(cat).value) : cat \in cats} \ {"null"})

\* the gauge: gauge_value and gauge_max, max_value being absent from the chart
gauge(rows, agg) ==
    LET series == dropna(to_numeric(Column(rows)))
        fn     == agg_fn(agg, "mean")
        value  == IF agg = "count" THEN "number"
                  ELSE IF fn = None THEN reduce(series, "mean")
                  ELSE reduce(series, fn)
    IN  IF series = <<>> THEN Failed("No numeric data for gauge")
        ELSE Stored("gauge", {safe_value(value), safe_value(reduce(series, "max"))})

\* the radar with the y column as its one metric: the mean of each category,
\* 0 when the category holds no number
radar(rows) ==
    LET val(cat) == LET s == dropna(to_numeric(Subset(rows, cat)))
                    IN  IF s = <<>> THEN "nan" ELSE reduce(s, "mean")
    IN  Stored("radar", {IF val(cat) = "nan" THEN "number" ELSE safe_value(val(cat)) :
                            cat \in Categories(rows, FALSE)})

\* the heatmap of x against a hue of one value
heatmap(rows, agg) ==
    LET fn == agg_fn(agg, "mean")
        val(cat) == LET s == dropna(to_numeric(Subset(rows, cat)))
                    IN  IF agg = "count" \/ s = <<>> \/ fn = None THEN "number"
                        ELSE reduce(s, fn)
    IN  Stored("heatmap", {safe_value(val(cat)) : cat \in Categories(rows, FALSE)})

\* the boxplot entry over cells: the five numbers of each category with at
\* least 2 numbers, and its observations as the candidates of the outlier
\* test; every one of them goes through safe_value
boxplot_cells(rows) ==
    LET negate(v) == CASE v = "inf" -> "-inf" [] v = "-inf" -> "inf" [] OTHER -> v
        \* the builtin max(a, b) and min(a, b): b only when the comparison holds
        Rank(v) == CASE v = "-inf" -> 0 [] v = "number" -> 1 [] v = "inf" -> 2
        py_max(a, b) == IF "nan" \in {a, b} THEN a ELSE IF Rank(b) > Rank(a) THEN b ELSE a
        py_min(a, b) == IF "nan" \in {a, b} THEN a ELSE IF Rank(b) < Rank(a) THEN b ELSE a
        \* subset.quantile(num / 4) by linear interpolation
        quantile(subset, num) ==
            LET pos == (Len(subset) - 1) * num
                lo  == pos \div 4 + 1
            IN  IF pos % 4 = 0 THEN kth(subset, lo)
                ELSE plus(kth(subset, lo), kth(subset, lo + 1))
        box(subset) ==
            LET q1    == quantile(subset, 1)
                q3    == quantile(subset, 3)
                iqr   == plus(q3, negate(q1))
                lower == py_max(kth(subset, 1), plus(q1, negate(iqr)))
                upper == py_min(kth(subset, Len(subset)), plus(q3, iqr))
            IN  {safe_value(v) : v \in {lower, q1, quantile(subset, 2), q3, upper}}
                \cup {safe_value(subset[i]) : i \in 1..Len(subset)}
        sub(cat) == dropna(to_numeric(Subset(rows, cat)))
        cats     == {cat \in Categories(rows, FALSE) : Len(sub(cat)) >= 2}
    IN  Stored("boxplot", UNION {box(sub(cat)) : cat \in cats})

\* the histogram entry over cells: np.histogram raises on an infinite range,
\* and the counts are integers
histogram_cells(rows) ==
    LET series == dropna(to_numeric(Column(rows)))
    IN  IF series = <<>> THEN Failed("No numeric data for histogram")
        ELSE IF \E i \in 1..Len(series) : series[i] # "number" THEN Failed("exception")
        ELSE Stored("histogram", {"number"})

\* the entry stored for one chart whose columns are all in the dataframe:
\* the branches in the order of the code
aggregate_entry(chart, rows) ==
    CASE chart.type = "scatter" \/ chart.aggregation = "raw" -> scatter_table(rows)
      [] OTHER ->
         CASE chart.type = "boxplot"   -> boxplot_cells(rows)
           [] chart.type = "histogram" -> histogram_cells(rows)
           [] chart.type = "radar"     -> radar(rows)
           [] chart.type = "gauge"     -> gauge(rows, chart.aggregation)
           [] chart.type = "heatmap"   ->
                IF chart.hue THEN heatmap(rows, chart.aggregation)
                ELSE Failed("Heatmap requires hue column")
           [] OTHER -> grouped_table(rows, chart.aggregation)

(***************************************************************************)
(* aggregator_agent.py: histogram bins and boxplot statistics              *)
(***************************************************************************)
\* int(n ** 0.5): the integer part of the square root
isqrt(n) == CHOOSE k \in 0..n : k * k <= n /\ (k + 1) * (k + 1) > n

\* chart.get("bins", min(20, max(5, int(len(series) ** 0.5))))
n_bins(chart, n) ==
    LET root == isqrt(n)
        low  == IF root > 5 THEN root ELSE 5
    IN  IF "bins" \in DOMAIN chart THEN chart.bins
        ELSE IF low < 20 THEN low ELSE 20

\* the histogram entry of a column with n numeric values, all finite:
\* np.histogram gives one count per bin
histogram_entry(chart, n) ==
    IF n = 0 THEN Failed("No numeric data for histogram")
    ELSE [shape |-> "histogram", error |-> "", bins |-> n_bins(chart, n)]

\* The observations of one category are a bag over these values, in
\* increasing order: g[j] is the number of rows whose y is ObservedValues[j]
ObservedValues == <<1, 2, 3, 4, 5, 100>>

\* the number of observations among the j smallest values; len(subset) at
\* j = Len(ObservedValues)
RECURSIVE below(_, _)
below(g, j) == IF j = 0 THEN 0 ELSE g[j] + below(g, j - 1)

\* the k-th smallest observation
nth(g, k) ==
    ObservedValues[CHOOSE j \in 1..Len(ObservedValues) : below(g, j - 1) < k /\ k <= below(g, j)]

\* subset.quantile(num / 4), in quarters: linear interpolation between the
\* two observations around position (n - 1) * num / 4
quantile4(g, num) ==
    LET pos == (below(g, Len(ObservedValues)) - 1) * num
        lo  == pos \div 4 + 1
        r   == pos % 4
    IN  IF r = 0 THEN 4 * nth(g, lo)
        ELSE 4 * nth(g, lo) + r * (nth(g, lo + 1) - nth(g, lo))

\* round(v, 2) of a non-negative multiple v = e / 8 of one eighth, in
\* hundredths: a tie goes to the even hundredth
round2(e) ==
    LET h == (e * 100) \div 8
        r == (e * 100) % 8
    IN  IF r < 4 THEN h
        ELSE IF r > 4 THEN h + 1
        ELSE IF h % 2 = 0 THEN h ELSE h + 1

\* the whiskers at the fences, with no clipping to the observations
box_of_unclipped(g) ==
    LET q1  == 2 * quantile4(g, 1)
        q3  == 2 * quantile4(g, 3)
        iqr == q3 - q1
    IN  [lower  |-> q1 - (3 * iqr) \div 2,
         q1     |-> q1,
         median |-> 2 * quantile4(g, 2),
         q3     |-> q3,
         upper  |-> q3 + (3 * iqr) \div 2,
         low_fence |-> q1 - (3 * iqr) \div 2, high_fence |-> q3 + (3 * iqr) \div 2]

\* lines 125 to 130 for one category of at least 2 observations, in eighths:
\* the quartiles, the median, the two fences and the clipped whiskers
box_of(g) ==
    LET n     == below(g, Len(ObservedValues))
        q1    == 2 * quantile4(g, 1)
        q3    == 2 * quantile4(g, 3)
        iqr   == q3 - q1
        low   == q1 - (3 * iqr) \div 2
        high  == q3 + (3 * iqr) \div 2
        least == 8 * nth(g, 1)
        most  == 8 * nth(g, n)
    IN  [lower  |-> IF least > low THEN least ELSE low,
         q1     |-> q1,
         median |-> 2 * quantile4(g, 2),
         q3     |-> q3,
         upper  |-> IF most < high THEN most ELSE high,
         low_fence |-> low, high_fence |-> high]

\* subset[(subset < q1 - 1.5 * iqr) | (subset > q3 + 1.5 * iqr)], as the
\* sequence of its values in the order of the rows: increasing or decreasing y
outliers_of(g, order) ==
    LET m == Len(ObservedValues)
        \* the number of outliers among the j smallest values
        RECURSIVE upto(_, _)
        upto(out, j) == IF j = 0 THEN 0 ELSE out[j] + upto(out, j - 1)
        asc(out) == [k \in 1..upto(out, m) |->
                       ObservedValues[CHOOSE j \in 1..m :
                                         upto(out, j - 1) < k /\ k <= upto(out, j)]]
        listed(out) == IF order = "asc" THEN asc(out)
                       ELSE [k \in 1..upto(out, m) |-> asc(out)[upto(out, m) + 1 - k]]
    IN  CHOOSE list \in
            {listed([j \in 1..m |->
                        IF 8 * ObservedValues[j] < b.low_fence
                           \/ 8 * ObservedValues[j] > b.high_fence
                        THEN g[j] ELSE 0]) : b \in {box_of(g)}} : TRUE

\* lines 125 to 143 for the category at position idx: its box, and its
\* outliers capped by out.head(20), every number rounded to 2 decimals
\* (hundredths here)
category_box(g, order, idx) ==
    CHOOSE e \in
        {[box |-> <<round2(b.lower), round2(b.q1), round2(b.median),
                    round2(b.q3), round2(b.upper)>>,
          outliers |-> [k \in 1..(IF Len(out) < 20 THEN Len(out) ELSE 20) |->
                           <<idx - 1, round2(8 * out[k])>>]] :
            b \in {box_of(g)}, out \in {outliers_of(g, order)}} : TRUE

\* the loop over the categories from position idx on (lines 121 to 143):
\* a category of fewer than 2 observations is skipped
RECURSIVE boxplot_loop(_, _, _, _)
boxplot_loop(groups, order, idx, acc) ==
    IF idx > Len(groups) THEN acc
    ELSE IF below(groups[idx], Len(ObservedValues)) < 2
    THEN boxplot_loop(groups, order, idx + 1, acc)
    ELSE boxplot_loop(groups, order, idx + 1,
            CHOOSE next \in
                {[boxplot_data |-> Append(acc.boxplot_data, e.box),
                  boxplot_categories |-> Append(acc.boxplot_categories, idx),
                  boxplot_outliers |-> acc.boxplot_outliers \o e.outliers] :
                    e \in {category_box(groups[idx], order, idx)}} : TRUE)

\* the boxplot entry of a dataset given by its categories in order of first
\* appearance, each with finite observations; a category is labelled here by
\* its position among them
boxplot_entry(groups, order) ==
    LET r == boxplot_loop(groups, order, 1,
                 [boxplot_data |-> <<>>, boxplot_categories |-> <<>>,
                  boxplot_outliers |-> <<>>])
    IN  [shape |-> "boxplot", error |-> "", boxplot_data |-> r.boxplot_data,
         boxplot_categories |-> r.boxplot_categories,
         boxplot_outliers |-> r.boxplot_outliers]

(***************************************************************************)
(* forecasting_agent.py                                                    *)
(***************************************************************************)
MIN_POINTS_FOR_FORECAST == 6
FORECAST_HORIZON == 6

\* any(kw in user_prompt for kw in forecast_keywords) on the lowered prompt,
\* by table over the words of the model's prompts
has_forecast_keyword(prompt_words) ==
    \E i \in 1..Len(prompt_words) :
        prompt_words[i] \in {"Forecast", "forecast", "trends", "next"}

\* is_forecast_intent: a keyword in the prompt, or the intent's type
is_forecast_intent(prompt_words, intent_map) ==
    \/ has_forecast_keyword(prompt_words)
    \/ GetOr(intent_map.type, "") \in {"trend", "forecast", "prediction"}

\* freq_label as a function of time_range, the span in whole days
freq_label(time_range) ==
    IF time_range > 365 * 2 THEN "Quarter"
    ELSE IF time_range > 180 THEN "Month"
    ELSE IF time_range > 30 THEN "Week"
    ELSE "Day"

\* f"forecast_{num_col}_{index}", as its parts between the underscores
forecast_id(num_col, index) == <<"forecast", num_col, <<"0", "1", "2">>[index + 1]>>

\* the band with the margin subtracted above and added below
confidence_band_inverted(fit, n, horizon) ==
    [forecast |-> [i \in 1..horizon |-> 100 * (fit.level + fit.slope * i)],
     lower    |-> [i \in 1..horizon |-> 100 * (fit.level + fit.slope * i) + 150 * fit.spread],
     upper    |-> [i \in 1..horizon |-> 100 * (fit.level + fit.slope * i) - 150 * fit.spread]]

\* _exponential_smoothing_forecast and, when it gives nothing,
\* _linear_trend_forecast on a series of n periods, followed by the _safe_float
\* of _build_forecast_chart: the forecast, conf_lower and conf_upper lists in
\* hundredths.  fit is what the fitting library returned: whether the smoothing
\* fit came back, the level (or intercept) and the trend (or slope), and the
\* residuals, which alternate between -spread and +spread.  The smoothing fit
\* forecasts level + h * trend and takes the sample deviation of its residuals
\* (pandas, n - 1 in the divisor); the linear fit evaluates the line at
\* x = n .. n + horizon - 1 and takes the population deviation (numpy, n in
\* the divisor).  round(v, 2) is the nearest hundredth
confidence_band(fit, n, horizon) ==
    LET RECURSIVE root(_, _, _)
        \* the largest k in lo..hi with k * k <= q
        root(q, lo, hi) ==
            IF lo >= hi THEN lo
            ELSE LET mid == (lo + hi + 1) \div 2
                 IN  IF mid * mid <= q THEN root(q, mid, hi) ELSE root(q, lo, mid - 1)
        RECURSIVE total(_, _)
        total(f, k) == IF k = 0 THEN 0 ELSE f[k] + total(f, k - 1)
        resid    == [j \in 1..n |-> IF j % 2 = 0 THEN fit.spread ELSE 0 - fit.spread]
        squares  == [j \in 1..n |-> resid[j] * resid[j]]
        \* n * sum((r - mean)^2)
        scatter  == n * total(squares, n) - total(resid, n) * total(resid, n)
        divisor  == IF fit.smoothing THEN n * (n - 1) ELSE n * n
        \* round(100 * 1.5 * std): half of the root of 4 * 150^2 * variance
        margin   == (root((90000 * scatter) \div divisor, 0, 300 * n * (fit.spread + 1)) + 1) \div 2
        point(i) == IF fit.smoothing THEN fit.level + fit.slope * i
                    ELSE fit.level + fit.slope * (n + i - 1)
    IN  [forecast |-> [i \in 1..horizon |-> 100 * point(i)],
         lower    |-> [i \in 1..horizon |-> 100 * point(i) - margin],
         upper    |-> [i \in 1..horizon |-> 100 * point(i) + margin]]

\* _try_forecast: the forecast chart of a pair, or nothing.  df.series gives,
\* for a numeric column, the number of rows left by the coercions, the number
\* of periods left by the resampling, whether one of the two fits succeeds
\* (an exception caught at line 184 counts as no fit) and what the fit
\* returned; df.span gives the span of a datetime column in days
try_forecast(df, date_col, num_col, index) ==
    LET s == df.series[num_col]
    IN  IF s.points < MIN_POINTS_FOR_FORECAST THEN <<>>
        ELSE IF df.span[date_col] < 7 THEN <<>>
        ELSE IF s.periods < MIN_POINTS_FOR_FORECAST THEN <<>>
        ELSE IF ~s.fits THEN <<>>
        ELSE <<[id     |-> forecast_id(num_col, index),
                option |-> freq_label(df.span[date_col]),
                type   |-> "forecast",
                band   |-> confidence_band(s.fit, s.periods, FORECAST_HORIZON)]>>

\* the loops running over every pair, whatever the number of forecasts made
RECURSIVE forecast_loop_unbounded(_, _, _, _, _, _, _)
forecast_loop_unbounded(df, datetime_cols, numeric_cols, max_forecasts, k, forecast_charts, log) ==
    IF k > Len(datetime_cols) * Len(numeric_cols) \/ Len(forecast_charts) >= 3
    THEN [forecast_charts |-> forecast_charts, attempts |-> log]
    ELSE LET date_col == datetime_cols[((k - 1) \div Len(numeric_cols)) + 1]
             num_col  == numeric_cols[((k - 1) % Len(numeric_cols)) + 1]
             chart    == try_forecast(df, date_col, num_col, Len(forecast_charts))
         IN  forecast_loop_unbounded(df, datetime_cols, numeric_cols, max_forecasts, k + 1,
                           forecast_charts \o chart,
                           Append(log, [date_col |-> date_col, num_col |-> num_col,
                                        chart |-> chart]))

\* the two nested loops of forecasting_agent from the k-th pair on, the date
\* columns outermost; attempted equals len(forecast_charts) all along, and a
\* break of the inner loop is followed by the break of the outer one
RECURSIVE forecast_loop(_, _, _, _, _, _, _)
forecast_loop(df, datetime_cols, numeric_cols, max_forecasts, k, forecast_charts, log) ==
    IF k > Len(datetime_cols) * Len(numeric_cols) \/ Len(forecast_charts) >= max_forecasts
    THEN [forecast_charts |-> forecast_charts, attempts |-> log]
    ELSE LET date_col == datetime_cols[((k - 1) \div Len(numeric_cols)) + 1]
             num_col  == numeric_cols[((k - 1) % Len(numeric_cols)) + 1]
             chart    == try_forecast(df, date_col, num_col, Len(forecast_charts))
         IN  forecast_loop(df, datetime_cols, numeric_cols, max_forecasts, k + 1,
                           forecast_charts \o chart,
                           Append(log, [date_col |-> date_col, num_col |-> num_col,
                                        chart |-> chart]))

\* forecasting_agent on the state's dataframe, schema, prompt, intent and
\* charts: whether it raises, state["charts"] when it returns, and the calls
\* of _try_forecast it made
forecasting_agent(df, sch, prompt_words, intent_value, existing_charts) ==
    LET unchanged == [raised |-> FALSE, charts |-> existing_charts, attempts |-> <<>>]
    IN  IF df.form = "none" \/ df.empty THEN unchanged
        ELSE
        LET numeric_cols  == SelectSeq(sch.numeric,
                                 LAMBDA c : c \notin sch.identifiers /\ c \in df.columns)
            datetime_cols == SelectSeq(sch.datetime, LAMBDA c : c \in df.columns)
            first(s, n)   == SubSeq(s, 1, IF Len(s) < n THEN Len(s) ELSE n)
        IN  IF datetime_cols = <<>> \/ numeric_cols = <<>> THEN unchanged
            \* intent.get("type", "") on a value that is no mapping
            ELSE IF intent_value.form # "mapping"
            THEN [raised |-> TRUE, charts |-> existing_charts, attempts |-> <<>>]
            ELSE LET max_forecasts == IF is_forecast_intent(prompt_words, intent_value)
                                      THEN 3 ELSE 1
                     r == forecast_loop(df, first(datetime_cols, 2), first(numeric_cols, 3),
                                        max_forecasts, 1, <<>>, <<>>)
                 IN  [raised |-> FALSE,
                      charts |-> existing_charts \o r.forecast_charts,
                      attempts |-> r.attempts]

(***************************************************************************)
(* Inputs: schemas, datasets and raw plans                                 *)
(***************************************************************************)
Schema(categorical, key_categorical, numeric, key_numeric, datetime, identifiers, hue) ==
    [categorical |-> categorical, numeric |-> numeric, datetime |-> datetime,
     identifiers |-> identifiers, key_numeric_columns |-> key_numeric,
     key_categorical_columns |-> key_categorical, suggested_hue_columns |-> hue]

\* the dataset {Region: categorical of 4 values, Revenue: numeric, OrderDate:
\* datetime}: nothing is an identifier, Region has 2 to 8 values and is the
\* hue candidate
ScenarioSchema ==
    Schema(<<"Region">>, <<"Region">>, <<"Revenue">>, <<"Revenue">>,
           <<"OrderDate">>, {}, <<"Region">>)

\* Schemas as schema_profiler_agent and data_enrichment_agent leave them:
\* the identifiers are removed from categorical, numeric and datetime
\* (schema_profiler_agent), a date stored as text is added to datetime and
\* stays in numeric (_parse_string_dates), the quartile bins of a numeric
\* column are appended to categorical and to the hue candidates whatever
\* the identifier list says (data_enrichment_agent, step 5).
Schemas ==
    { ScenarioSchema,
      \* nothing classified
      Schema(<<>>, <<>>, <<>>, <<>>, <<"OrderDate">>, {"OrderId"}, <<>>),
      \* one categorical, one numeric column
      Schema(<<"Region">>, <<"Region">>, <<"Revenue">>, <<"Revenue">>,
             <<"OrderDate">>, {"OrderId"}, <<"Region">>),
      \* one categorical, three numeric columns
      Schema(<<"Region">>, <<"Region">>, <<"Revenue", "Cost", "Tenure">>,
             <<"Revenue", "Cost", "Tenure">>, <<"OrderDate">>, {"OrderId"}, <<"Region">>),
      \* two categorical, two numeric columns, a hue candidate
      Schema(<<"Region", "Segment">>, <<"Region", "Segment">>, <<"Revenue", "Cost">>,
             <<"Revenue", "Cost">>, <<"OrderDate">>, {"OrderId"}, <<"Segment">>),
      \* the same with no hue candidate (no categorical column of 2 to 8 values)
      Schema(<<"Region", "Segment">>, <<"Region", "Segment">>, <<"Revenue", "Cost">>,
             <<"Revenue", "Cost">>, <<"OrderDate">>, {"OrderId"}, <<>>),
      \* the bins of Tenure are the only hue candidate and the classifier
      \* listed their name among the identifiers
      Schema(<<"Region", "Tenure_group">>, <<"Region">>, <<"Revenue", "Tenure">>,
             <<"Revenue", "Tenure">>, <<"OrderDate">>, {"OrderId", "Tenure_group"},
             <<"Tenure_group">>),
      \* YearEnd is classified numeric and holds dates stored as text
      Schema(<<"Region">>, <<"Region">>, <<"YearEnd", "Revenue">>, <<"YearEnd", "Revenue">>,
             <<"OrderDate", "YearEnd">>, {"OrderId"}, <<"Region">>),
      \* no numeric column has a variance: no key numeric column
      Schema(<<"Region">>, <<"Region">>, <<"Revenue", "Cost">>, <<>>,
             <<"OrderDate">>, {"OrderId"}, <<"Region">>),
      \* no categorical column
      Schema(<<>>, <<>>, <<"Revenue", "Cost">>, <<"Revenue", "Cost">>,
             <<"OrderDate">>, {"OrderId"}, <<>>),
      \* Region has more than 20 values: no key categorical column and no
      \* hue candidate; no date column
      Schema(<<"Region">>, <<>>, <<"Revenue", "Cost">>, <<"Revenue", "Cost">>,
             <<>>, {"OrderId"}, <<>>) }

\* The dataset: its columns, and the columns holding numeric values
Dataframe ==
    [columns      |-> {"Region", "Segment", "Revenue", "Cost", "Tenure", "Tenure_group",
                       "OrderDate", "YearEnd", "OrderId"},
     numeric_data |-> {"Revenue", "Cost", "Tenure", "YearEnd", "OrderId"}]

\* Chart entries a raw plan is made of
RawCharts ==
    { \* a well-formed bar chart with no hue and no title key
      Chart("c1", "bar", "Region", YSpec("Revenue", "mean"), Absent, <<>>, 0),
      \* hue is an identifier
      Chart("c2", "line", "Region", YSpec("Revenue", "sum"), "OrderId",
            <<"Revenue", "by", "Region">>, 0),
      \* y is a date
      Chart("c3", "area", "Region", YSpec("OrderDate", "count"), None,
            <<"Orders", "over", "time">>, 0),
      \* x and y are inverted, the type needs trimming
      Chart("c4", " Bar ", "Revenue", YSpec("Region", "mean"), None,
            <<"Region", "revenue">>, 0),
      \* x is an identifier
      Chart("c5", "bar", "OrderId", YSpec("Revenue", "mean"), None, <<"Per", "order">>, 0),
      \* an unsupported type named in the title
      Chart("c6", "Violin", "Region", YSpec("Cost", "raw"), None,
            <<"Violin", "of", "Cost">>, 0),
      \* an id that diversity enforcement uses itself
      Chart("auto_scatter", "bar", "Segment", YSpec("Cost", "count"), None,
            <<"Orders", "by", "Segment">>, 0),
      \* a scatter chart
      Chart("c8", "scatter", "Revenue", YSpec("Cost", "raw"), None,
            <<"Revenue", "vs", "Cost">>, 0),
      \* a histogram with no id
      Chart(Absent, "histogram", "Revenue", YSpec("Revenue", "raw"), None,
            <<"Spread", "of", "Revenue">>, 10),
      \* a pie chart with a hue
      Chart("c10", "pie", "Region", YSpec("Region", "count"), "Segment",
            <<"Share", "by", "Region">>, 0),
      \* a bar chart over YearEnd with no x
      Chart("c11", "bar", Absent, YSpec("YearEnd", "mean"), None, <<"Year", "end">>, 0),
      \* an entry that is no mapping, and a type that is no string
      ScalarChart,
      Chart("c13", NonString, "Region", YSpec("Revenue", "mean"), None, <<>>, 0) }

RawKpis ==
    { Kpi(<<"Average", "Revenue">>, "Revenue", "mean"),
      Kpi(<<"Orders">>, "OrderId", "count"),
      Kpi(<<"Last", "order">>, "OrderDate", "max"),
      KpiScalarMetric(<<"Broken">>) }

\* the numbers of KPIs and of charts of a raw plan
RawPlanSizes ==
    {mn \in (0..MaxRawItems) \X (0..MaxRawItems) : mn[1] + mn[2] <= MaxRawItems}

\* response.content: a text that holds no plan, in every fence
Responses ==
    {[fence |-> f, body |-> b, plan |-> EmptyPlan] : f \in Fences, b \in Bodies}

\* response.content: the bare JSON text of a raw plan
RawPlanResponse(k, c) ==
    [fence |-> "none", body |-> "object", plan |-> [kpis |-> k, charts |-> c]]

(***************************************************************************)
(* State                                                                   *)
(***************************************************************************)
VARIABLES
    schema,      \* state["schema"]
    response,    \* response.content of the planner's reasoning call
    set_first,   \* the first element of list(numeric_cols) in this process
    pc,          \* the statement of run_dashboard_pipeline / planner_agent reached
    plan,        \* the local plan of planner_agent, then state["analysis_plan"]
    debug,       \* state["debug"]
    kpis,        \* state["kpis"]
    aggregated,  \* state["aggregated_data"]
    request,     \* the plan entry the aggregator is working on
    dataset,     \* the content of state["dataframe"] that the entry reads
    intent,      \* state["intent"]
    prompt,      \* state["prompt"]
    charts,      \* state["charts"]
    attempts     \* the calls of _try_forecast made by forecasting_agent, in order

vars == <<schema, response, set_first, pc, plan, debug, kpis, aggregated,
          request, dataset, intent, prompt, charts, attempts>>

\* the state the planner's run does not read
later == <<request, dataset, intent, prompt, charts, attempts>>

\* the planner's run: no entry is being aggregated on data, no forecast is made
NoLater ==
    /\ request = None
    /\ dataset = None
    /\ intent = None
    /\ prompt = None
    /\ charts = <<>>
    /\ attempts = <<>>

NoDebug == [planner_error |-> Absent, planner_raw |-> Absent]

Init ==
    /\ schema \in Schemas
    /\ \/ response \in Responses
       \/ \E mn \in RawPlanSizes :
            \E k \in [1..mn[1] -> RawKpis], c \in [1..mn[2] -> RawCharts] :
                response = RawPlanResponse(k, c)
    /\ set_first \in IF Len(schema.key_numeric_columns) = 0 /\ Len(schema.numeric) > 0
                     THEN Range(schema.numeric) ELSE {None}
    /\ pc = "safe_json_loads"
    /\ plan = EmptyPlan
    /\ debug = NoDebug
    /\ kpis = <<>>
    /\ aggregated = <<>>
    /\ NoLater

\* except Exception as e: the plan becomes empty and the error is recorded
Except(error) ==
    /\ plan' = EmptyPlan
    /\ debug' = [planner_error |-> error, planner_raw |-> response]
    /\ pc' = "planned"

\* a step of the validation pipeline: it raises, or it leaves its result
Stage(here, raises, result, next) ==
    /\ pc = here
    /\ IF raises THEN Except("exception")
       ELSE /\ plan' = result
            /\ pc' = next
            /\ debug' = debug
    /\ UNCHANGED <<schema, response, set_first, kpis, aggregated, later>>

\* plan = safe_json_loads(response.content); plan.setdefault(...)
Parse ==
    /\ pc = "safe_json_loads"
    /\ LET parsed == safe_json_loads(response)
       IN  IF parsed.raises THEN Except(parsed.error)
           ELSE IF setdefault_raises(parsed) THEN Except("exception")
           ELSE /\ plan' = parsed.plan
                /\ pc' = "fix_chart_types"
                /\ debug' = debug
    /\ UNCHANGED <<schema, response, set_first, kpis, aggregated, later>>

FixChartTypes ==
    Stage("fix_chart_types", fix_chart_types_raises(plan.charts),
          [plan EXCEPT !.charts = fix_chart_types(plan.charts)], "fix_chart_titles")

FixChartTitles ==
    Stage("fix_chart_titles", FALSE,
          [plan EXCEPT !.charts = fix_chart_titles(plan.charts)], "fix_y_axis")

FixYAxis ==
    Stage("fix_y_axis", FALSE,
          [plan EXCEPT !.charts = fix_y_axis(plan.charts, schema, fallback_y_of(schema, set_first))],
          "strip_identifier_charts")

StripIdentifierCharts ==
    Stage("strip_identifier_charts", FALSE,
          [plan EXCEPT !.charts = strip_identifier_charts(plan.charts, schema.identifiers)],
          "strip_kpis")

\* _strip_identifier_kpis, then _strip_date_kpis
StripKpis ==
    Stage("strip_kpis", kpi_column_raises(plan.kpis),
          [plan EXCEPT !.kpis = strip_date_kpis(strip_identifier_kpis(plan.kpis, schema.identifiers),
                                                Range(schema.datetime))],
          "enforce_diversity")

EnforceDiversity ==
    Stage("enforce_diversity", FALSE,
          [plan EXCEPT !.charts = enforce_diversity(plan.charts, schema)], "enforce_y_rotation")

EnforceYRotation ==
    Stage("enforce_y_rotation", FALSE,
          [plan EXCEPT !.charts = enforce_y_rotation(plan.charts, schema)], "ensure_minimums")

\* if len(plan["kpis"]) < 2: ...; if len(plan["charts"]) < 5: ...
ensure_minimums(p, sch) ==
    [kpis   |-> IF Len(p.kpis) < MinKpis THEN ensure_min_kpis(p.kpis, sch) ELSE p.kpis,
     charts |-> IF Len(p.charts) < MinCharts THEN ensure_min_charts(p.charts, sch) ELSE p.charts]

EnsureMinimums ==
    Stage("ensure_minimums", FALSE, ensure_minimums(plan, schema), "planned")

\* The validation pipeline of planner_agent on a parsed plan, as one function:
\* the steps above in their order, an exception giving the empty plan
validate(p, sch, first) ==
    IF fix_chart_types_raises(p.charts) \/ kpi_column_raises(p.kpis) THEN EmptyPlan
    ELSE
        LET c1 == fix_chart_types(p.charts)
            c2 == fix_chart_titles(c1)
            c3 == fix_y_axis(c2, sch, fallback_y_of(sch, first))
            c4 == strip_identifier_charts(c3, sch.identifiers)
            k4 == strip_date_kpis(strip_identifier_kpis(p.kpis, sch.identifiers),
                                  Range(sch.datetime))
            c5 == enforce_diversity(c4, sch)
            c6 == enforce_y_rotation(c5, sch)
        IN  ensure_minimums([kpis |-> k4, charts |-> c6], sch)

\* aggregator_agent: the KPI loop, then the chart loop
Aggregate ==
    /\ pc = "planned"
    /\ IF kpi_loop_raises(plan.kpis)
       THEN pc' = "aggregator_raised" /\ kpis' = kpis /\ aggregated' = aggregated
       ELSE /\ kpis' = aggregate_kpis(plan.kpis, Dataframe)
            /\ LET r == aggregate_charts(plan.charts, 1, Dataframe, <<>>)
               IN  IF r.raised
                   THEN pc' = "aggregator_raised" /\ aggregated' = aggregated
                   ELSE pc' = "aggregated" /\ aggregated' = r.aggregated
    /\ UNCHANGED <<schema, response, set_first, plan, debug, later>>

\* KPI requests of a raw plan: those of RawKpis, a request on a column the
\* dataset does not hold, one with an aggregation pandas does not know, one
\* with no name and one that is no mapping
KpiRequests ==
    RawKpis \cup
    { Kpi(<<"Total", "Profit">>, "Profit", "sum"),
      Kpi(<<"Revenue", "variance">>, "Revenue", "variance"),
      Kpi(NoName, "Cost", "mean"),
      ScalarKpi }

\* Raw plans rich in KPI requests: up to MaxRawItems requests and at most
\* one chart, the plain bar chart or the histogram with no id
InitKpi ==
    /\ schema \in Schemas
    /\ \E n \in 0..MaxRawItems :
         \E k \in [1..n -> KpiRequests] :
           \E c \in {<<>>} \cup {<<ch>> : ch \in {ch \in RawCharts : ch.id \in {"c1", Absent}}} :
              response = RawPlanResponse(k, c)
    /\ set_first \in IF Len(schema.key_numeric_columns) = 0 /\ Len(schema.numeric) > 0
                     THEN Range(schema.numeric) ELSE {None}
    /\ pc = "safe_json_loads"
    /\ plan = EmptyPlan
    /\ debug = NoDebug
    /\ kpis = <<>>
    /\ aggregated = <<>>
    /\ NoLater

Next ==
    \/ Parse
    \/ FixChartTypes
    \/ FixChartTitles
    \/ FixYAxis
    \/ StripIdentifierCharts
    \/ StripKpis
    \/ EnforceDiversity
    \/ EnforceYRotation
    \/ EnsureMinimums
    \/ Aggregate

Spec == Init /\ [][Next]_vars

SpecKpi == InitKpi /\ [][Next]_vars

\* Raw plans rich in chart types and aggregations: up to 2 charts, of types
\* written in capitals or with blanks, of types the dashboard does not draw
\* with and without a synonym, with no type key, and raw-data charts that ask
\* for a reduction
InitCharts ==
    LET TypedCharts ==
          { Chart("t1", "Donut", "Region", YSpec("Region", "count"), None, <<"Share">>, 0),
            Chart("t2", "gantt", "Region", YSpec("Revenue", "sum"), None, <<"Plan">>, 0),
            Chart("t3", "bubble", "Revenue", YSpec("Cost", "mean"), None, <<"Costs">>, 0),
            Chart("t4", "PIE ", "Segment", YSpec("Segment", "count"), None, <<"Segments">>, 0),
            Chart("t5", Absent, "Region", YSpec("Cost", "mean"), None, <<"Cost">>, 0),
            Chart("t6", "scatter", "Revenue", YSpec("Cost", "mean"), None, <<"Both">>, 0),
            Chart("t7", "histogram", "OrderDate", YSpec("OrderDate", "raw"), None,
                  <<"Orders">>, 10),
            Chart("t8", "Violin", "Region", YSpec("Cost", "sum"), "Segment",
                  <<"Violin", "of", "Cost">>, 0),
            Chart("t9", "radar", "Region", YSpec("Revenue", "mean"), None, <<"Radar">>, 0),
            Chart("t10", "", "Region", YSpec("Revenue", "max"), None, <<"Top">>, 0),
            Chart("t11", "stacked bar", "Region", YSpec("Revenue", "sum"), "Segment",
                  <<"Stack">>, 0),
            ScalarChart,
            Chart("t13", None, "Region", YSpec("Revenue", "mean"), None, <<>>, 0) }
    IN
    /\ schema \in {sch \in Schemas : Len(sch.numeric) = 2 /\ Len(sch.datetime) = 1}
                 \cup {ScenarioSchema,
                       \* nothing classified
                       Schema(<<>>, <<>>, <<>>, <<>>, <<"OrderDate">>, {"OrderId"}, <<>>),
                       \* the only numeric column holds dates stored as text
                       Schema(<<"Region">>, <<"Region">>, <<"YearEnd">>, <<"YearEnd">>,
                              <<"OrderDate", "YearEnd">>, {"OrderId"}, <<"Region">>),
                       \* Segment is the only categorical column, listed as an identifier
                       Schema(<<"Segment">>, <<"Segment">>, <<"Revenue", "Cost">>,
                              <<"Revenue", "Cost">>, <<"OrderDate">>, {"OrderId", "Segment"},
                              <<"Segment">>)}
    /\ \/ response \in Responses
       \/ \E n \in 0..2 :
            \E c \in [1..n -> TypedCharts],
               k \in {<<>>, <<Kpi(<<"Orders">>, "OrderId", "count")>>,
                      <<KpiScalarMetric(<<"Broken">>)>>} :
                response = RawPlanResponse(k, c)
    /\ set_first \in IF Len(schema.key_numeric_columns) = 0 /\ Len(schema.numeric) > 0
                     THEN Range(schema.numeric) ELSE {None}
    /\ pc = "safe_json_loads"
    /\ plan = EmptyPlan
    /\ debug = NoDebug
    /\ kpis = <<>>
    /\ aggregated = <<>>
    /\ NoLater

SpecCharts == InitCharts /\ [][Next]_vars

(***************************************************************************)
(* The aggregator on the cells of a dataset                                *)
(***************************************************************************)
\* the rows of a dataset of at most MaxRows rows: the cells of x and of y
Rows == UNION {[1..n -> [x : Cells, y : Cells]] : n \in 1..MaxRows}

\* the entries of a plan, all their columns being in the dataframe: a chart
\* of each branch of the chart loop and a KPI, with the aggregations of
\* AGG_MAP and one pandas has not
EntryRequests ==
    [kind : {"chart"},
     type : {"bar", "scatter", "boxplot", "histogram", "radar", "gauge",
             "heatmap", "treemap", "funnel"},
     aggregation : AGG_MAP_KEYS \cup {"variance"}, hue : BOOLEAN]
    \cup [kind : {"kpi"}, type : {"kpi"},
          aggregation : AGG_MAP_KEYS \cup {"variance"}, hue : {FALSE}]

\* the aggregator is about to work on one entry of the plan
AtEntry ==
    /\ schema = ScenarioSchema
    /\ response = RawPlanResponse(<<>>, <<>>)
    /\ set_first = None
    /\ pc = "aggregate_entry"
    /\ plan = EmptyPlan
    /\ debug = NoDebug
    /\ kpis = <<>>
    /\ aggregated = <<>>
    /\ intent = None
    /\ prompt = None
    /\ charts = <<>>
    /\ attempts = <<>>

InitCells ==
    /\ AtEntry
    /\ request \in EntryRequests
    /\ dataset \in Rows

\* what an aggregation of one entry leaves alone
entry_unchanged ==
    <<schema, response, set_first, plan, debug, request, dataset,
      intent, prompt, charts, attempts>>

\* one pass of the KPI loop, on the cells of the KPI's column
AggregateKpiValue ==
    /\ pc = "aggregate_entry"
    /\ request.kind = "kpi"
    /\ LET r == kpi_value(Column(dataset), request.aggregation)
       IN  kpis' = <<[name  |-> <<"KPI">>,
                      value |-> IF r.raised THEN "null" ELSE r.value,
                      error |-> r.raised]>>
    /\ pc' = "entry_stored"
    /\ UNCHANGED <<entry_unchanged, aggregated>>

\* one pass of the chart loop, on the cells of the chart's columns
AggregateEntry ==
    /\ pc = "aggregate_entry"
    /\ request.kind = "chart"
    /\ aggregated' = [cid \in {"c1"} |-> aggregate_entry(request, dataset)]
    /\ pc' = "entry_stored"
    /\ UNCHANGED <<entry_unchanged, kpis>>

NextCells ==
    \/ AggregateKpiValue
    \/ AggregateEntry

SpecCells == InitCells /\ [][NextCells]_vars

(***************************************************************************)
(* The aggregator on the numbers of a dataset                              *)
(***************************************************************************)
\* the observations of one category: each value absent, met once or twice,
\* or met MaxCopies times
Groups == [1..Len(ObservedValues) -> {0, 1, 2, MaxCopies}]

\* a category of one observation, which the boxplot skips
SingleObservation == [j \in 1..Len(ObservedValues) |-> IF j = 3 THEN 1 ELSE 0]

InitStatistics ==
    /\ AtEntry
    /\ \/ /\ request \in [kind : {"chart"}, type : {"histogram"}]
                         \cup [kind : {"chart"}, type : {"histogram"}, bins : {10}]
          /\ dataset \in [values : 0..MaxValues]
       \/ /\ request \in [kind : {"chart"}, type : {"boxplot"}]
          /\ \E g \in Groups, order \in {"asc", "desc"} :
                \/ dataset = [groups |-> <<g>>, order |-> order]
                \/ dataset = [groups |-> <<SingleObservation, g>>, order |-> order]

\* the pass of the chart loop for a histogram chart
HistogramEntry ==
    /\ pc = "aggregate_entry"
    /\ request.type = "histogram"
    /\ aggregated' = [cid \in {"c1"} |-> histogram_entry(request, dataset.values)]
    /\ pc' = "entry_stored"
    /\ UNCHANGED <<entry_unchanged, kpis>>

\* the pass of the chart loop for a boxplot chart
BoxplotEntry ==
    /\ pc = "aggregate_entry"
    /\ request.type = "boxplot"
    /\ aggregated' = [cid \in {"c1"} |-> boxplot_entry(dataset.groups, dataset.order)]
    /\ pc' = "entry_stored"
    /\ UNCHANGED <<entry_unchanged, kpis>>

NextStatistics ==
    \/ HistogramEntry
    \/ BoxplotEntry

SpecStatistics == InitStatistics /\ [][NextStatistics]_vars

(***************************************************************************)
(* The forecasting agent after the chart agent                             *)
(***************************************************************************)
\* a dataframe: its columns, the span of each datetime column and the series
\* of each numeric column
Frame(columns, span, series) ==
    [form |-> "frame", empty |-> FALSE, columns |-> columns, span |-> span,
     series |-> series]

\* the state the pipeline hands to forecasting_agent
InitForecast ==
    LET dates   == {"OrderDate", "ShipDate", "DueDate"}
        numbers == {"OrderId", "Revenue", "Cost", "Units", "Tenure"}
        \* 40 rows in 12 periods that can be fitted
        fitted  == [smoothing |-> TRUE, level |-> 120, slope |-> 5, spread |-> 1]
        good    == [points |-> 40, periods |-> 12, fits |-> TRUE, fit |-> fitted]
        kinds   == {good,
                    [points |-> 5, periods |-> 5, fits |-> TRUE, fit |-> fitted],
                    [points |-> 6, periods |-> 5, fits |-> TRUE, fit |-> fitted],
                    [points |-> 6, periods |-> 6, fits |-> FALSE, fit |-> fitted]}
        \* what the fits of a series can return
        fits    == [smoothing : BOOLEAN, level : {0 - 3, 120}, slope : {0 - 2, 0, 5},
                    spread : {0, 1, 7}]
        plan_chart(id) == [id |-> id, option |-> "plan", type |-> "bar",
                           band |-> Absent]
    IN
    /\ response = RawPlanResponse(<<>>, <<>>)
    /\ set_first = None
    /\ pc = "forecasting"
    /\ plan = EmptyPlan
    /\ debug = NoDebug
    /\ kpis = <<>>
    /\ aggregated = <<>>
    /\ request = None
    /\ attempts = <<>>
    \* state["intent"]: the {} of main.py, what intent_agent parsed (a mapping
    \* with or without a type, a list, null)
    /\ intent \in {[form |-> "mapping", type |-> Absent],
                   [form |-> "mapping", type |-> "forecast"],
                   [form |-> "mapping", type |-> "comparison"],
                   [form |-> "list", type |-> Absent],
                   [form |-> "null", type |-> Absent]}
    /\ prompt \in {<<"show", "revenue", "by", "region">>, <<"Forecast", "revenue">>}
    \* state["charts"] as chart_agent left it
    /\ charts \in {<<>>, <<plan_chart(<<"c1">>)>>,
                   <<plan_chart(<<"c1">>), plan_chart(<<"forecast", "Revenue", "0">>)>>}
    /\ \/ \* one pair, every span from 0 to MaxSpanDays days
          /\ schema = ScenarioSchema
          /\ \E days \in 0..MaxSpanDays :
                dataset = Frame(dates \cup numbers \cup {"Region"},
                                [d \in dates |-> days], [c \in numbers |-> good])
       \/ \* several pairs with series of every kind
          /\ schema \in
               {Schema(<<"Region">>, <<"Region">>, num, num, dat, {"OrderId"}, <<>>) :
                  num \in {<<"Revenue">>, <<"OrderId", "Revenue", "Cost", "Units", "Tenure">>},
                  dat \in {<<>>, <<"OrderDate">>, <<"OrderDate", "ShipDate", "DueDate">>}}
          /\ \E missing \in {{}, {"Cost"}, {"OrderDate"}},
                first_span \in {3, 400},
                s \in [{"Revenue", "Cost", "Units"} -> kinds] :
                dataset = Frame((dates \cup numbers \cup {"Region"}) \ missing,
                                [d \in dates |-> IF d = "OrderDate" THEN first_span ELSE 45],
                                [c \in numbers |-> IF c \in DOMAIN s THEN s[c] ELSE good])
       \/ \* one pair over 6, 7 or 12 periods, every outcome of the fits
          /\ schema = ScenarioSchema
          /\ \E f \in fits, n \in {6, 7, 12} :
                dataset = Frame(dates \cup numbers \cup {"Region"},
                                [d \in dates |-> 400],
                                [c \in numbers |->
                                   [points |-> 40, periods |-> n, fits |-> TRUE, fit |-> f]])
       \/ \* no dataframe, or one with no row
          /\ schema = ScenarioSchema
          /\ dataset \in {[form |-> "none", empty |-> TRUE],
                          [form |-> "frame", empty |-> TRUE]}

\* forecasting_agent(state)
ForecastingAgent ==
    /\ pc = "forecasting"
    /\ LET r == forecasting_agent(dataset, schema, prompt, intent, charts)
       IN  /\ pc' = IF r.raised THEN "forecast_raised" ELSE "forecast_done"
           /\ charts' = r.charts
           /\ attempts' = r.attempts
    /\ UNCHANGED <<schema, response, set_first, plan, debug, kpis, aggregated,
                   request, dataset, intent, prompt>>

NextForecast == ForecastingAgent

SpecForecast == InitForecast /\ [][NextForecast]_vars

(***************************************************************************)
(* Properties                                                              *)
(***************************************************************************)
\* planner_agent has returned: plan is state["analysis_plan"]
Validated == pc \in {"planned", "aggregated", "aggregator_raised"}

\* the response text holds a JSON object
IsObject == cleaned_body(response) = "object"

\* the validation pipeline ran to its end on a parsed plan mapping
Repaired == Validated /\ IsObject /\ debug.planner_error = Absent

ChartsOf(p) == {p.charts[i] : i \in 1..Len(p.charts)}

\* C1: idempotence of repair.  Running the validation pipeline on the plan it
\* produced yields the same plan again (same charts in the same order with
\* the same ids, types, x, y, hue and titles, and the same KPIs).
C1_RepairIsIdempotent ==
    Repaired => validate(plan, schema, set_first) = plan

\* C2: no chart of the validated plan has an x, a y.column or a hue that is
\* a member of the schema's identifier set.
C2_NoIdentifierColumn ==
    Repaired =>
        \A c \in ChartsOf(plan) :
            /\ Get(c.x) \notin schema.identifiers
            /\ y_col_of(c) \notin schema.identifiers
            /\ Get(c.hue) \notin schema.identifiers

\* C3: no bar, line or area chart of the validated plan has a y.column that
\* is a member of the schema's datetime set.
C3_NoDateAsY ==
    Repaired =>
        \A c \in ChartsOf(plan) :
            Get(c.type) \in BarLineArea => y_col_of(c) \notin Range(schema.datetime)

\* C4: diversity guarantee.  With at least 2 numeric and at least 2
\* categorical columns in the schema and a parseable raw plan, the validated
\* plan holds at least one chart of each of the five patterns.
C4_AllPatternsPresent ==
    (Repaired /\ Len(schema.numeric) >= 2 /\ Len(schema.categorical) >= 2)
        => patterns_of(plan.charts) = AllPatterns

\* C5: rotation bound.  With at least 2 numeric columns in the schema, no
\* numeric column is the y.column of more than 2 bar, line or area charts of
\* the validated plan.
C5_RotationBound ==
    (Repaired /\ Len(schema.numeric) >= 2) =>
        \A n \in Range(schema.numeric) :
            Cardinality({i \in 1..Len(plan.charts) :
                            /\ Get(plan.charts[i].type) \in BarLineArea
                            /\ y_col_of(plan.charts[i]) = n}) <= RotationLimit

\* a chart entry that the validation pipeline keeps when it is the only
\* entry of the plan
KeptAlone(c) ==
    \E d \in ChartsOf(validate([kpis |-> <<>>, charts |-> <<c>>], schema, set_first)) :
        d.id = c.id

\* C6: per-item degradation in the validator.  When an entry of a parseable
\* raw plan is malformed only that entry is skipped: the well-formed charts
\* of the raw plan still appear in the validated plan, which is not replaced
\* by the empty plan.
C6_MalformedEntryOnlySkipped ==
    (Validated /\ IsObject) =>
        \A c \in ChartsOf(response.plan) :
            KeptAlone(c) => \E d \in ChartsOf(plan) : d.id = c.id

\* C7: per-chart isolation in the aggregator.  aggregator_agent returns,
\* every chart of the plan has its entry in aggregated_data (an error entry
\* when its processing raised) and every KPI its entry in the KPI list.
C7_AggregatorIsolatesCharts ==
    pc \in {"aggregated", "aggregator_raised"} =>
        /\ pc = "aggregated"
        /\ \A c \in ChartsOf(plan) : c.id \in DOMAIN aggregated
        /\ Len(kpis) = Len(plan.kpis)

\* C8: the result shape follows the chart type.  For a boxplot (histogram)
\* chart with aggregation raw whose columns exist and hold numeric data the
\* aggregator stores the five-number summary (the bin/count structure) and
\* not a row-wise point table.
C8_ShapeFollowsType ==
    pc = "aggregated" =>
        \A c \in ChartsOf(plan) :
            (/\ Get(c.type) \in {"boxplot", "histogram"}
             /\ ~chart_lookup_raises(c)
             /\ c.y.aggregation = "raw"
             /\ missing_columns(c, Dataframe.columns) = {}
             /\ c.y.column \in Dataframe.numeric_data)
                => aggregated[c.id].shape = c.type

\* C9: the chart ids of a validated plan are pairwise distinct.
C9_ChartIdsUnique ==
    Repaired =>
        \A i, j \in 1..Len(plan.charts) :
            i # j => Get(plan.charts[i].id) # Get(plan.charts[j].id)

\* the response is empty text, text that is no JSON, or JSON that is no object
Unparseable == response.body \in {"empty", "garbage", "list", "scalar", "null"}

\* C10: unparseable plan.  When the response cannot be parsed into a plan
\* mapping, planner_agent does not raise: it goes on to set analysis_plan to
\* exactly the empty plan and records planner_error and planner_raw.
C10_UnparseableGivesEmptyPlan ==
    (Unparseable /\ pc # "safe_json_loads") =>
        /\ Validated
        /\ plan = EmptyPlan
        /\ debug.planner_error # Absent
        /\ debug.planner_raw = response

\* planner_agent has returned on a fenced response holding a JSON list
C10_Witness ==
    /\ pc = "planned"
    /\ response.body = "list"
    /\ response.fence = "fence_json"
    /\ plan = EmptyPlan
    /\ debug.planner_raw = response

\* the raw plan {"charts": [c1]}, c1 a bar chart of the mean Revenue by Region
ScenarioChart == Chart("c1", "bar", "Region", YSpec("Revenue", "mean"), Absent, <<>>, 0)
InScenario ==
    /\ Repaired
    /\ schema = ScenarioSchema
    /\ response = RawPlanResponse(<<>>, <<ScenarioChart>>)

HasChart(P(_)) == \E c \in ChartsOf(plan) : P(c)
IsRegionPie(c) ==
    c.type = "pie" /\ c.x = "Region" /\ c.y = YSpec("Region", "count")
IsSynthesized(c) == c.id \notin {ScenarioChart.id}

MinStep == pc = "ensure_minimums" /\ pc' = "planned"

\* the schema has a categorical column that is no identifier and a numeric
\* column that is neither an identifier nor a date
HasUsableColumns ==
    /\ \E c \in Range(schema.categorical) : c \notin schema.identifiers
    /\ \E n \in Range(schema.numeric) :
            n \notin schema.identifiers /\ n \notin Range(schema.datetime)

\* C12: minimum chart cardinality.  When fewer than 5 charts reach the
\* minimum step and the schema has a usable categorical and a usable numeric
\* column, the step ends with at least 5 and at most 7 charts, adds no chart
\* whose id is already present and keeps every chart in its position.
C12_MinimumCharts ==
    [][(MinStep /\ Len(plan.charts) < MinCharts /\ HasUsableColumns) =>
          /\ Len(plan'.charts) >= MinCharts
          /\ Len(plan'.charts) <= ChartCap
          /\ SubSeq(plan'.charts, 1, Len(plan.charts)) = plan.charts
          /\ \A i \in (Len(plan.charts) + 1)..Len(plan'.charts) :
                 plan'.charts[i].id \notin ids_of(plan.charts)]_vars

\* aggregator_agent has run, to its end or to an exception in the chart loop
AggregatorLeft == pc \in {"aggregated", "aggregator_raised"}

\* C13: the KPI list is never shortened.  It holds one entry per KPI request
\* of the plan, in plan order (under the request's name, "KPI" when it has
\* none); a request whose column the dataset does not hold, or whose
\* computation throws, is there with a null value and an error.
C13_KpiListComplete ==
    AggregatorLeft =>
        /\ Len(kpis) = Len(plan.kpis)
        /\ \A i \in 1..Len(plan.kpis) :
              LET k == plan.kpis[i]
              IN  /\ kpis[i].name = IF k.name = NoName THEN <<"KPI">> ELSE k.name
                  /\ (\/ k.metric.column \notin Dataframe.columns
                      \/ k.metric.aggregation = "variance" /\ k.metric.column = "Revenue"
                      \/ k.name = NoName)
                        => kpis[i].value = "null" /\ kpis[i].error

\* three requests were aggregated: a column the dataset does not hold, an
\* unknown aggregation, and one that yields a number
C13_Witness ==
    /\ pc = "aggregated"
    /\ Len(plan.kpis) = 3
    /\ plan.kpis[1].metric.column = "Profit"
    /\ plan.kpis[2].metric.aggregation = "variance"
    /\ kpis[1].error /\ kpis[2].error
    /\ kpis[3].value = "number"


\* the aggregator has stored the entry it worked on
EntryStored == pc = "entry_stored"

\* C14: NaN scrubbing.  No numeric value stored in aggregated_data or in the
\* KPI list is NaN or an infinity, whatever the shape of the result: a
\* non-finite result is replaced by null or its row is omitted, also in the
\* row-wise table of a scatter/raw chart whose source cell is infinite.
C14_NoNonFiniteStored ==
    EntryStored =>
        /\ \A cid \in DOMAIN aggregated : aggregated[cid].numbers \cap NonFinite = {}
        /\ \A i \in 1..Len(kpis) : kpis[i].value \notin NonFinite


\* Python's round(sqrt(n)): the integer nearest to the square root
round_sqrt(n) == IF n > isqrt(n) * isqrt(n) + isqrt(n) THEN isqrt(n) + 1 ELSE isqrt(n)

\* C15: default histogram bin count.  For a histogram chart with no explicit
\* bins over n >= 1 numeric values, the number of bins used equals
\* min(20, max(5, round(sqrt(n)))), for every n: 20 for n = 400, and also for
\* n whose square root has a fractional part of at least 0.5, such as n = 45.
C15_BinsRoundSqrt ==
    (EntryStored /\ request.type = "histogram" /\ "bins" \notin DOMAIN request
        /\ dataset.values >= 1) =>
        LET r == round_sqrt(dataset.values)
        IN  aggregated["c1"].bins = IF r < 5 THEN 5 ELSE IF r > 20 THEN 20 ELSE r


\* the observations of the example: 1, 2, 3, 4, 5 and 100, once each
ExampleGroup == [j \in 1..Len(ObservedValues) |-> 1]

\* the number of observations of g strictly outside the two fences
Outside(g) ==
    LET b == box_of(g)
        RECURSIVE count(_)
        count(j) == IF j = 0 THEN 0
                    ELSE count(j - 1) +
                         (IF 8 * ObservedValues[j] < b.low_fence
                             \/ 8 * ObservedValues[j] > b.high_fence THEN g[j] ELSE 0)
    IN  count(Len(ObservedValues))

\* the positions of boxplot_outliers that carry the category index idx
ReportedAt(entry, idx) ==
    {k \in 1..Len(entry.boxplot_outliers) : entry.boxplot_outliers[k][1] = idx}

C16_Capped ==
    /\ EntryStored
    /\ request.type = "boxplot"
    /\ \E i \in 1..Len(dataset.groups) :
          /\ below(dataset.groups[i], Len(ObservedValues)) >= 2
          /\ Outside(dataset.groups[i]) > 20
          /\ Cardinality(ReportedAt(aggregated["c1"], i - 1)) = 20


\* forecasting_agent has returned
ForecastDone == pc = "forecast_done"

\* C17: forecast resampling period.  The period is a function of the span in
\* whole days: a span of at least 730 days gives quarterly, otherwise at
\* least 180 days gives monthly, otherwise at least 30 days gives weekly,
\* otherwise daily; the thresholds are inclusive, so exactly 730, 180 and 30
\* days select quarterly, monthly and weekly.
C17_InclusiveThresholds ==
    ForecastDone =>
        \A k \in 1..Len(attempts) :
            LET days == dataset.span[attempts[k].date_col]
            IN  attempts[k].chart # <<>> =>
                    attempts[k].chart[1].option =
                        IF days >= 730 THEN "Quarter"
                        ELSE IF days >= 180 THEN "Month"
                        ELSE IF days >= 30 THEN "Week"
                        ELSE "Day"


\* the pair of an attempt fails one of the thresholds or both fits
PairFails(a) ==
    \/ dataset.series[a.num_col].points < 6
    \/ dataset.span[a.date_col] < 7
    \/ dataset.series[a.num_col].periods < 6
    \/ ~dataset.series[a.num_col].fits

\* C18: forecasting is silent and non-destructive.  forecasting_agent never
\* raises, whatever the dataframe, schema, prompt and intent it is handed; a
\* pair for which the coercion, the 6-point and 7-day thresholds or both fits
\* fail contributes no chart; every chart already in state.charts is still
\* there afterwards, unchanged and in the same order; when no pair succeeds
\* state.charts is unchanged.
C18_SilentAndNonDestructive ==
    [][pc = "forecasting" =>
        /\ pc' # "forecast_raised"
        /\ Len(charts') >= Len(charts)
        /\ SubSeq(charts', 1, Len(charts)) = charts
        /\ \A k \in 1..Len(attempts') : PairFails(attempts'[k]) => attempts'[k].chart = <<>>
        /\ (\A k \in 1..Len(attempts') : attempts'[k].chart = <<>>) => charts' = charts]_vars

\* C19: forecast ids never collide.  After forecasting_agent has run, the ids
\* of the forecast results it appended are pairwise distinct and differ from
\* the id of every chart of the analysis plan already in the collection.
C19_ForecastIdsDistinct ==
    ForecastDone =>
        \A i, j \in 1..Len(charts) :
            (i < j /\ charts[j].type = "forecast") => charts[i].id # charts[j].id

\* the columns forecasting_agent may use: those of the schema that the
\* dataset holds, the numeric ones not being identifiers
UsableDates == SelectSeq(schema.datetime, LAMBDA c : c \in dataset.columns)
UsableNumbers ==
    SelectSeq(schema.numeric, LAMBDA c : c \notin schema.identifiers /\ c \in dataset.columns)

\* the number of successful attempts among the first k
Successes(k) == Cardinality({m \in 1..k : attempts[m].chart # <<>>})

\* the request is forecast-like: a keyword in the prompt or the intent's type
ForecastLike ==
    \/ \E i \in 1..Len(prompt) : prompt[i] \in {"Forecast", "forecast", "trends", "next"}
    \/ intent.type \in {"trend", "forecast", "prediction"}

Forecasts == {k \in 1..Len(charts) : charts[k].type = "forecast"}

\* C21: every forecast the agent appends, from the smoothing fit or from the
\* linear fallback, holds FORECAST_HORIZON = 6 future values with as many
\* lower and upper bounds, and at each of them lower <= forecast <= upper
C21_BandAroundForecast ==
    ForecastDone =>
        \A k \in Forecasts :
            LET b == charts[k].band
            IN  /\ DOMAIN b.forecast = 1..6
                /\ DOMAIN b.lower = 1..6
                /\ DOMAIN b.upper = 1..6
                /\ \A i \in 1..6 : b.lower[i] <= b.forecast[i] /\ b.forecast[i] <= b.upper[i]

\* a forecast of the linear fallback with a band of positive width
C21_Witness ==
    /\ ForecastDone
    /\ dataset.form = "frame" /\ ~dataset.empty
    /\ ~dataset.series["Revenue"].fit.smoothing
    /\ \E k \in Forecasts : charts[k].band.lower[6] < charts[k].band.upper[6]

\* a forecast of the smoothing fit with a band of positive width
C21_WitnessSmoothing ==
    /\ ForecastDone
    /\ dataset.form = "frame" /\ ~dataset.empty
    /\ dataset.series["Revenue"].fit.smoothing
    /\ \E k \in Forecasts : charts[k].band.lower[1] < charts[k].band.forecast[1]


\* the columns the schema classifies
Classified == Range(schema.categorical) \cup Range(schema.numeric) \cup Range(schema.datetime)

\* the columns a chart names: its x, its y.column and its hue, when given
Referenced(c) ==
    {col \in {GetOr(c.x, ""), y_col_of(c), GetOr(c.hue, "")} : Truthy(col)}

\* C22: every x, y.column and hue named by a chart of the validated plan is a
\* column the schema classifies as categorical, numeric or datetime
C22_ColumnsClassified ==
    Repaired => \A c \in ChartsOf(plan) : Referenced(c) \subseteq Classified


\* the charts that are drawn from the rows, with no reduction
RawDataTypes == {"scatter", "histogram", "boxplot"}

\* C23: in a validated plan every scatter, histogram and boxplot chart has the
\* aggregation raw
C23_RawAggregation ==
    Repaired =>
        \A c \in ChartsOf(plan) : c.type \in RawDataTypes => agg_of(c) = "raw"

\* C24: the type-fixing step gives every chart one of the 12 supported types:
\* the lowered and trimmed raw type when it is supported, else its synonym
\* (violin: boxplot, bubble: scatter, donut: pie, ...), else bar; and every
\* chart of a validated plan has a supported type
C24_TypesNormalized ==
    [][ /\ Repaired' => \A c \in ChartsOf(plan') : c.type \in VALID_CHART_TYPES
        /\ (pc = "fix_chart_types" /\ pc' = "fix_chart_titles") =>
              /\ Len(plan'.charts) = Len(plan.charts)
              /\ \A i \in 1..Len(plan.charts) :
                    LET raw == LowerStrip(GetOr(plan.charts[i].type, "bar"))
                        new == plan'.charts[i].type
                    IN  /\ raw \in VALID_CHART_TYPES => new = raw
                        /\ raw = "violin" => new = "boxplot"
                        /\ raw = "bubble" => new = "scatter"
                        /\ raw = "donut" => new = "pie"
                        /\ raw \in DOMAIN TYPE_FALLBACK => new = TYPE_FALLBACK[raw]
                        /\ raw \notin VALID_CHART_TYPES \cup DOMAIN TYPE_FALLBACK => new = "bar"
                        /\ plan'.charts[i] = [plan.charts[i] EXCEPT !.type = new]
      ]_vars

\* a validated plan whose raw plan asked for a gantt chart and for a type in
\* capitals: the first is a bar chart, the second a pie chart
C24_Witness ==
    /\ pc = "planned" /\ Repaired
    /\ Len(response.plan.charts) = 2
    /\ response.plan.charts[1].type = "gantt"
    /\ response.plan.charts[2].type = "PIE "
    /\ \E c \in ChartsOf(plan) : c.id = "t2" /\ c.type = "bar"
    /\ \E c \in ChartsOf(plan) : c.id = "t4" /\ c.type = "pie"


\* the steps of the validation pipeline that read the schema
SchemaSteps ==
    {"fix_y_axis", "strip_identifier_charts", "strip_kpis", "enforce_diversity",
     "enforce_y_rotation", "ensure_minimums"}

\* the schema has no numeric column that is neither an identifier nor a date
NoUsableNumeric ==
    \A n \in Range(schema.numeric) : n \in schema.identifiers \/ n \in Range(schema.datetime)

\* C25: empty or partial schema.  When the schema has no usable categorical
\* or no usable numeric column, the steps that read the schema raise nothing
\* on the charts, diversity enforcement and the minimum step leave the chart
\* list as it is, and every other step only keeps or drops charts; when it has
\* no usable numeric column the minimum step leaves the KPI list as it is.
C25_PartialSchema ==
    [][(~HasUsableColumns /\ pc \in SchemaSteps) =>
          /\ pc # "strip_kpis" => debug' = debug
          /\ pc \in {"enforce_diversity", "ensure_minimums"} => plan'.charts = plan.charts
          /\ \A d \in ChartsOf(plan') : \E c \in ChartsOf(plan) : c.id = d.id
          /\ Len(plan'.charts) <= Len(plan.charts)
          /\ (NoUsableNumeric /\ pc = "ensure_minimums") => plan'.kpis = plan.kpis]_vars

\* a validated plan of fewer than 5 charts and no KPI under a schema with a
\* categorical column and no usable numeric column
C25_Witness ==
    /\ pc = "planned" /\ Repaired
    /\ NoUsableNumeric
    /\ Len(schema.categorical) > 0 /\ Len(schema.numeric) > 0
    /\ Len(plan.charts) \in 1..(MinCharts - 1)
    /\ Len(plan.kpis) = 0


\* the step "6. enforce diversity" of planner_agent
DiversityStep == pc = "enforce_diversity" /\ pc' = "enforce_y_rotation"

\* the charts a step appended to the list it was given
Injected == SubSeq(plan'.charts, Len(plan.charts) + 1, Len(plan'.charts))

\* C26: diversity enforcement keeps the charts it is given and appends at
\* most one chart per pattern these charts do not exhibit, none for a pattern
\* they exhibit; when they exhibit all five patterns it appends nothing
C26_OnlyAbsentPatterns ==
    [][DiversityStep =>
          /\ SubSeq(plan'.charts, 1, Len(plan.charts)) = plan.charts
          /\ patterns_of(plan.charts) = AllPatterns => plan'.charts = plan.charts
          /\ \A i \in 1..Len(Injected) :
                classify_chart_pattern(Injected[i]) \ patterns_of(plan.charts) # {}
          /\ Len(Injected) <= Cardinality(AllPatterns \ patterns_of(plan.charts))]_vars


\* C27: every chart appended by diversity enforcement whose y is a numeric
\* column uses the column that is y of the fewest charts of the list so far
\* (the charts given to the step and those appended before it), the first
\* such column of the ranked list
C27_LeastUsedColumn ==
    [][DiversityStep =>
          \A i \in 1..Len(Injected) :
              y_col_of(Injected[i]) \in Range(usable_key_numeric(schema)) =>
                  y_col_of(Injected[i]) =
                      pick_fresh_numeric(usable_key_numeric(schema),
                                         plan.charts \o SubSeq(Injected, 1, i - 1))]_vars


\* the step "7. enforce y-column rotation" of planner_agent
RotationStep == pc = "enforce_y_rotation" /\ pc' = "ensure_minimums"

\* C28: frame of the rotation.  The step keeps the number and the order of
\* the charts and leaves alone every chart that is no bar, line or area
\* chart; a chart it changes keeps its id, type, x, hue, aggregation and
\* bins, and its new y.column is a usable numeric column that was y of fewer
\* than two charts when the step began.
C28_RotationFrame ==
    [][RotationStep =>
          /\ Len(plan'.charts) = Len(plan.charts)
          /\ \A i \in 1..Len(plan.charts) :
                LET c == plan.charts[i]
                    d == plan'.charts[i]
                IN  /\ GetOr(c.type, "bar") \notin BarLineArea => d = c
                    /\ d # c =>
                          /\ d = [c EXCEPT !.y = d.y, !.title = d.title]
                          /\ d.y.form = "mapping"
                          /\ d.y.aggregation = agg_of(c)
                          /\ d.y.column # y_col_of(c)
                          /\ d.y.column \in Range(usable_key_numeric(schema))
                          /\ count_y(plan.charts, d.y.column) < 2]_vars

\* the charts that reach the rotation step, computed from the raw plan
BeforeRotation ==
    enforce_diversity(
        strip_identifier_charts(
            fix_y_axis(fix_chart_titles(fix_chart_types(response.plan.charts)), schema,
                       fallback_y_of(schema, set_first)),
            schema.identifiers),
        schema)

\* the rotation has reassigned a chart and left alone a chart of another
\* type that has the column it took away as y
C28_Witness ==
    /\ pc = "ensure_minimums"
    /\ Len(plan.charts) = Len(BeforeRotation)
    /\ \E i \in 1..Len(plan.charts) :
          /\ plan.charts[i] # BeforeRotation[i]
          /\ \E j \in 1..Len(plan.charts) :
                /\ plan.charts[j].type \notin BarLineArea
                /\ y_col_of(plan.charts[j]) = y_col_of(BeforeRotation[i])


\* C29: when fewer than 2 KPIs reach the minimum step and the schema has a
\* usable numeric column, the step keeps these KPIs, ends with 2 or 3 KPIs,
\* and every KPI it adds is over a numeric column of the schema that no other
\* KPI of the resulting list uses
C29_DistinctKpiColumns ==
    [][(MinStep /\ Len(plan.kpis) < MinKpis /\ ~NoUsableNumeric) =>
          /\ SubSeq(plan'.kpis, 1, Len(plan.kpis)) = plan.kpis
          /\ Len(plan'.kpis) \in {MinKpis, KpiCap}
          /\ \A i \in (Len(plan.kpis) + 1)..Len(plan'.kpis) :
                /\ kpi_column(plan'.kpis[i]) \in Range(schema.numeric)
                /\ \A j \in 1..Len(plan'.kpis) :
                      j # i => kpi_column(plan'.kpis[j]) # kpi_column(plan'.kpis[i])]_vars


\* C30: in a boxplot entry boxplot_data and boxplot_categories have the same
\* length, and the index of every outlier pair is a position of
\* boxplot_categories (counted from 0) that holds the category the outlier
\* was observed in (the pair of a category at position idx of the dataset
\* carries idx - 1, and the category's label is idx)
C30_OutlierIndexNamesCategory ==
    (EntryStored /\ request.type = "boxplot") =>
        LET entry == aggregated["c1"]
        IN  /\ Len(entry.boxplot_data) = Len(entry.boxplot_categories)
            /\ \A k \in 1..Len(entry.boxplot_outliers) :
                  LET position == entry.boxplot_outliers[k][1] + 1
                  IN  /\ position \in 1..Len(entry.boxplot_categories)
                      /\ entry.boxplot_categories[position] = position

============================================================================
